---------------------------- MODULE Spec2Model ----------------------------
(***************************************************************************)
(* Altbot: the event orchestrator, the GDPR consent subsystem and the      *)
(* rate limiter with shadow-ban escalation, as a state machine.            *)
(*                                                                         *)
(* Several specifications share the variables below; each one drives the   *)
(* part of the program it is about and leaves the rest idle:               *)
(*   SpecRL          the rate limiter under concurrent callers             *)
(*   SpecEscalation  scenario 3 of the specification                       *)
(*   SpecWord        affirmative detection on message bodies               *)
(*   Spec            the event loop with its handlers, the generation job  *)
(*                   and the background goroutines                         *)
(***************************************************************************)
EXTENDS Integers, Sequences, FiniteSets, TLC

(***************************************************************************)
(* Bounds                                                                  *)
(***************************************************************************)
\* cap on exceedCount (a whitelisted user's counter grows without limit)
MaxExceed == 3
\* SpecEscalation: number of Increment calls U makes
MaxCalls == 6
\* SpecWord: length of the enumerated message bodies
MaxTextLen == 4

\* Spec: number of events the stream delivers
MaxEvents == 2
\* Spec: number of timer ticks and block events beside the stream's events
MaxTicks == 1

Users == {"u1", "u2"}
\* config.RateLimit.AdminContactHandle and config.Server.Username
Admin == "admin"
Bot == "bot"
Accounts == Users \cup {Admin}
\* the nil status reference (InReplyToID == nil, mastodon.ID(""))
None == 0

(***************************************************************************)
(* Configuration (main.go Config.RateLimit).  A run reads it once.         *)
(***************************************************************************)
RLConfigs ==
  { [Enabled |-> TRUE,  MaxRequestsPerMinute |-> 1, MaxRequestsPerHour |-> 2,
     NewAccountMaxRequestsPerMinute |-> 1, NewAccountMaxRequestsPerHour |-> 1,
     ShadowBanThreshold |-> 1],
    [Enabled |-> TRUE,  MaxRequestsPerMinute |-> 2, MaxRequestsPerHour |-> 2,
     NewAccountMaxRequestsPerMinute |-> 1, NewAccountMaxRequestsPerHour |-> 1,
     ShadowBanThreshold |-> 2],
    [Enabled |-> FALSE, MaxRequestsPerMinute |-> 1, MaxRequestsPerHour |-> 2,
     NewAccountMaxRequestsPerMinute |-> 1, NewAccountMaxRequestsPerHour |-> 1,
     ShadowBanThreshold |-> 1] }

\* Scenario 3 of the specification: rate-limit escalation
EscalationConfig ==
  [Enabled |-> TRUE,  MaxRequestsPerMinute |-> 5, MaxRequestsPerHour |-> 3,
   NewAccountMaxRequestsPerMinute |-> 1, NewAccountMaxRequestsPerHour |-> 1,
   ShadowBanThreshold |-> 2]

VARIABLES
  cfg,       \* config.RateLimit
  rl,        \* the RateLimiter struct
  acctNew,   \* environment: accounts younger than NewAccountPeriodDays
  last,      \* the operation that ran last and what it returned
  trace,     \* SpecEscalation: what each Increment call for U returned
  text,      \* SpecWord: the plain text of a message body
  verdict,   \* SpecWord: what the affirmative check said about it
  applied,   \* SpecVisibility, SpecWarning: an input and what the mapping
             \* of the reply makes of it, applied again and again
  config,    \* config.Behavior and config.DNI, as far as the handlers read them
  statuses,  \* the platform: statuses[id] is what GetStatus(id) returns
  consentDB, \* consentDB.Users: the accounts with a ConsentRecord
  consentMu, \* consentDB.mu: "free", or "held" by a goroutine that never unlocks
  pendingGDPRMutex, \* "free", or "held" by a goroutine that never unlocks
  pendingGDPRRequests, \* user -> the consent DM that waits for an answer
  consentRequests,     \* source post -> per-post consent request (legacy flow)
  replyMap,  \* source post -> the bot's reply and when it was written
  altTextChecks, \* source post -> the AltTextCheck: whom to remind, since when
  files,     \* the JSON files on disk, each <<>> (missing) or <<content>>
  loop,      \* the event loop: "idle", inside a "job", or "blocked" on a mutex
  job,       \* the running generateAndPostAltText call and its goroutines
  out,       \* what the handling of the latest event did (history variable)
  nEvents,   \* events delivered so far
  nTicks,    \* timer ticks and block events so far
  apiKeyStore, \* the API keys in memory and in api_keys.json, the requests
               \* that are between their key check and their usage check
  apiServer, \* requestQueue, its processor and the handlers that use it
  checker    \* the checkAltTextPeriodically goroutine, the reminder tracker
             \* and what the goroutine has examined (history)

rlVars == <<cfg, rl, acctNew, last>>
escVars == <<trace>>
wordVars == <<text, verdict>>
orchVars == <<config, statuses, consentDB, consentMu, pendingGDPRMutex,
              pendingGDPRRequests, consentRequests, replyMap, altTextChecks,
              loop, job, out, nEvents, nTicks>>
vars == <<cfg, rl, acctNew, last, trace, text, verdict, config, statuses,
          consentDB, consentMu, pendingGDPRMutex, pendingGDPRRequests,
          consentRequests, replyMap, altTextChecks, loop, job, out, nEvents,
          nTicks, files, applied, apiKeyStore, apiServer, checker>>
apiVars == <<apiKeyStore, apiServer>>

\* what the rate-limiter specifications leave idle
RLIdle == UNCHANGED <<text, verdict, orchVars, applied, apiVars, checker>>

\* no file has been written yet (os.IsNotExist on every read)
NoFiles == [ratelimiter |-> <<>>, requests |-> <<>>, consent |-> <<>>,
            pending |-> <<>>]

\* the event loop is not running: nothing was delivered, every table is empty
NoJob == [src |-> None]
NoEvent ==
  [ev |-> "none", who |-> "-", id |-> None, preEmpty |-> TRUE,
   hadPending |-> FALSE, hadReply |-> None, posts |-> <<>>, deletes |-> <<>>,
   origin |-> "none", srcAuthor |-> "-", srcConsent |-> FALSE,
   bannedAtStart |-> FALSE, provider |-> {}, failed |-> {},
   attribution |-> FALSE, finished |-> FALSE]
\* the HTTP API is not running
ApiOff == apiKeyStore = <<>> /\ apiServer = <<>>
\* the reminders are off: checkAltTextPeriodically was not started
CheckerOff == checker = <<>>

TablesOff ==
  /\ statuses = <<>>
  /\ consentDB = {}
  /\ consentMu = "free"
  /\ pendingGDPRMutex = "free"
  /\ pendingGDPRRequests = <<>>
  /\ consentRequests = <<>>
  /\ replyMap = <<>>
  /\ altTextChecks = <<>>
  /\ files = NoFiles
  /\ loop = "idle"
  /\ job = NoJob
  /\ out = NoEvent
  /\ nEvents = 0
  /\ nTicks = 0

OrchOff ==
  /\ config = [AskForConsent |-> FALSE, ReplyVisibility |-> "public",
                AltTextReminders |-> FALSE, DNI |-> {}]
  /\ applied = <<>>
  /\ TablesOff
  /\ ApiOff
  /\ CheckerOff

(***************************************************************************)
(* Rate limiter (main.go 1414-1603)                                        *)
(***************************************************************************)
NewRateLimiter ==
  [ MinuteCounts   |-> [u \in Accounts |-> 0],
    HourCounts     |-> [u \in Accounts |-> 0],
    AccountAges    |-> {},
    ExceededCounts |-> [u \in Accounts |-> 0],
    ShadowBanned   |-> {},
    Whitelist      |-> {} ]

\* outcome of one platform call: it succeeds or returns an error
CallOutcomes == [fetchOk : BOOLEAN, acctOk : BOOLEAN, postOk : BOOLEAN]

IsNewAccount(r, u, fetchOk) ==
  IF u \in r.AccountAges
    THEN [isNew |-> acctNew[u], ages |-> r.AccountAges]
    ELSE IF ~fetchOk
      THEN [isNew |-> FALSE, ages |-> r.AccountAges]
      ELSE [isNew |-> acctNew[u], ages |-> r.AccountAges \cup {u}]

IsShadowBanned(r, u) == u \in r.ShadowBanned

notifyAdmin(acctOk, postOk) ==
  IF ~acctOk THEN "lookup_failed"
  ELSE IF postOk THEN "posted" ELSE "post_failed"

\* mutants of ShadowBanUser: the ban flag is never set; the whitelist is ignored
ShadowBanUser_NoBan(r, u, acctOk, postOk) ==
  IF u \in r.Whitelist
    THEN [rl |-> r, notified |-> "none"]
    ELSE [rl |-> r, notified |-> notifyAdmin(acctOk, postOk)]

ShadowBanUser_NoWhitelist(r, u, acctOk, postOk) ==
  [rl |-> [r EXCEPT !.ShadowBanned = @ \cup {u}],
   notified |-> notifyAdmin(acctOk, postOk)]

\* mutant of ShadowBanUser: the admin is not told
ShadowBanUser_Silent(r, u, acctOk, postOk) ==
  IF u \in r.Whitelist
    THEN [rl |-> r, notified |-> "none"]
    ELSE [rl |-> [r EXCEPT !.ShadowBanned = @ \cup {u}], notified |-> "none"]

ShadowBanUser(r, u, acctOk, postOk) ==
  IF u \in r.Whitelist
    THEN [rl |-> r, notified |-> "none"]
    ELSE [rl |-> [r EXCEPT !.ShadowBanned = @ \cup {u}],
          notified |-> notifyAdmin(acctOk, postOk)]

\* mutant of Exceeded: the ban comes one breach late (> for >=)
Exceeded_Late(r, u, env, why) ==
  LET r1 == [r EXCEPT !.ExceededCounts[u] = @ + 1] IN
  IF r1.ExceededCounts[u] > cfg.ShadowBanThreshold
    THEN LET b == ShadowBanUser(r1, u, env.acctOk, env.postOk) IN
         [rl |-> b.rl, ok |-> FALSE, why |-> why, notified |-> b.notified]
    ELSE [rl |-> r1, ok |-> FALSE, why |-> why, notified |-> "none"]

\* the branch taken when a limit is reached: count the breach, maybe ban
Exceeded(r, u, env, why) ==
  LET r1 == [r EXCEPT !.ExceededCounts[u] = @ + 1] IN
  IF r1.ExceededCounts[u] >= cfg.ShadowBanThreshold
    THEN LET b == ShadowBanUser(r1, u, env.acctOk, env.postOk) IN
         [rl |-> b.rl, ok |-> FALSE, why |-> why, notified |-> b.notified]
    ELSE [rl |-> r1, ok |-> FALSE, why |-> why, notified |-> "none"]

\* mutant of Increment: the limits are compared with > for >=
Increment_OneMore(r, u, env) ==
  IF ~cfg.Enabled
    THEN [rl |-> r, ok |-> TRUE, why |-> "disabled", notified |-> "none"]
  ELSE IF IsShadowBanned(r, u)
    THEN [rl |-> r, ok |-> FALSE, why |-> "banned", notified |-> "none"]
  ELSE
    LET age == IsNewAccount(r, u, env.fetchOk)
        r0  == [r EXCEPT !.AccountAges = age.ages]
        maxPerMinute == IF age.isNew THEN cfg.NewAccountMaxRequestsPerMinute
                                     ELSE cfg.MaxRequestsPerMinute
        maxPerHour   == IF age.isNew THEN cfg.NewAccountMaxRequestsPerHour
                                     ELSE cfg.MaxRequestsPerHour
    IN IF r0.MinuteCounts[u] > maxPerMinute
         THEN Exceeded(r0, u, env, "minute")
       ELSE IF r0.HourCounts[u] > maxPerHour
         THEN Exceeded(r0, u, env, "hour")
       ELSE [rl |-> [r0 EXCEPT !.MinuteCounts[u] = @ + 1,
                               !.HourCounts[u] = @ + 1],
             ok |-> TRUE, why |-> "ok", notified |-> "none"]

\* mutant of Increment: a shadow-banned user is counted like any other
Increment_NoBanCheck(r, u, env) ==
  IF ~cfg.Enabled
    THEN [rl |-> r, ok |-> TRUE, why |-> "disabled", notified |-> "none"]
  ELSE IF r.MinuteCounts[u] >= cfg.MaxRequestsPerMinute
    THEN Exceeded(r, u, env, "minute")
  ELSE IF r.HourCounts[u] >= cfg.MaxRequestsPerHour
    THEN Exceeded(r, u, env, "hour")
  ELSE [rl |-> [r EXCEPT !.MinuteCounts[u] = @ + 1, !.HourCounts[u] = @ + 1],
        ok |-> TRUE, why |-> "ok", notified |-> "none"]

Increment(r, u, env) ==
  IF ~cfg.Enabled
    THEN [rl |-> r, ok |-> TRUE, why |-> "disabled", notified |-> "none"]
  ELSE IF IsShadowBanned(r, u)
    THEN [rl |-> r, ok |-> FALSE, why |-> "banned", notified |-> "none"]
  ELSE
    LET age == IsNewAccount(r, u, env.fetchOk)
        r0  == [r EXCEPT !.AccountAges = age.ages]
        maxPerMinute == IF age.isNew THEN cfg.NewAccountMaxRequestsPerMinute
                                     ELSE cfg.MaxRequestsPerMinute
        maxPerHour   == IF age.isNew THEN cfg.NewAccountMaxRequestsPerHour
                                     ELSE cfg.MaxRequestsPerHour
    IN IF r0.MinuteCounts[u] >= maxPerMinute
         THEN Exceeded(r0, u, env, "minute")
       ELSE IF r0.HourCounts[u] >= maxPerHour
         THEN Exceeded(r0, u, env, "hour")
       ELSE [rl |-> [r0 EXCEPT !.MinuteCounts[u] = @ + 1,
                               !.HourCounts[u] = @ + 1],
             ok |-> TRUE, why |-> "ok", notified |-> "none"]

UnbanAndWhitelistUser(r, u) ==
  [r EXCEPT !.ShadowBanned = @ \ {u}, !.Whitelist = @ \cup {u}]

\* mutant of ResetMinuteCounts: the reset lifts the shadow bans as well
ResetMinuteCounts_Amnesty(r) ==
  [r EXCEPT !.MinuteCounts = [u \in Accounts |-> 0], !.ShadowBanned = {}]

ResetMinuteCounts(r) ==
  [r EXCEPT !.MinuteCounts = [u \in Accounts |-> 0]]

\* mutant of ResetHourCounts: the exceed counters are left alone
ResetHourCounts_KeepExceeded(r) ==
  [r EXCEPT !.HourCounts = [u \in Accounts |-> 0]]

ResetHourCounts(r) ==
  [r EXCEPT !.HourCounts = [u \in Accounts |-> 0],
            !.ExceededCounts = [u \in Accounts |-> 0]]

\* json.Marshal(rl): the exported fields under their json tags (mu is not
\* exported and is left out)
MarshalRateLimiter(r) ==
  [minute_counts |-> r.MinuteCounts, hour_counts |-> r.HourCounts,
   account_ages |-> r.AccountAges, exceeded_counts |-> r.ExceededCounts,
   shadow_banned |-> r.ShadowBanned, whitelist |-> r.Whitelist]

\* json.Unmarshal(data, rl) into the maps NewRateLimiter made
UnmarshalRateLimiter(d) ==
  [MinuteCounts |-> d.minute_counts, HourCounts |-> d.hour_counts,
   AccountAges |-> d.account_ages, ExceededCounts |-> d.exceeded_counts,
   ShadowBanned |-> d.shadow_banned, Whitelist |-> d.whitelist]

\* os.WriteFile either replaces the file or returns an error
SaveToFile(f, r, ok) ==
  IF ok THEN [f EXCEPT !.ratelimiter = <<MarshalRateLimiter(r)>>] ELSE f

\* a missing file leaves the fresh rate limiter as it is
LoadFromFile(f) ==
  IF f.ratelimiter = <<>> THEN NewRateLimiter
  ELSE UnmarshalRateLimiter(f.ratelimiter[1])

\* Increment registers its deferred SaveToFile after the ban check
IncrementSaves(r, u) == cfg.Enabled /\ ~IsShadowBanned(r, u)

NoOp == [op |-> "none", user |-> "-", ok |-> TRUE, why |-> "-", notified |-> "none"]

(***************************************************************************)
(* SpecRL: attachment workers call Increment, the two reset goroutines     *)
(* tick, the admin unbans; every operation runs under rl.mu.               *)
(***************************************************************************)
RLInit ==
  /\ cfg \in RLConfigs
  /\ rl = NewRateLimiter
  /\ acctNew \in {[u \in Accounts |-> FALSE], [u \in Accounts |-> u = "u1"]}
  /\ last = NoOp
  /\ trace = <<>>
  /\ text = <<>> /\ verdict = "unchecked"
  /\ OrchOff

RLIncrement(u) ==
  /\ rl.ExceededCounts[u] < MaxExceed
  /\ \E env \in CallOutcomes :
       LET res == Increment(rl, u, env) IN
       /\ rl' = res.rl
       /\ files' = IF IncrementSaves(rl, u) THEN SaveToFile(files, res.rl, TRUE)
                                            ELSE files
       /\ last' = [op |-> "Increment", user |-> u, ok |-> res.ok,
                   why |-> res.why, notified |-> res.notified]
  /\ UNCHANGED <<cfg, acctNew, trace>>
  /\ RLIdle

RLResetMinute ==
  /\ cfg.Enabled
  /\ rl' = ResetMinuteCounts(rl)
  /\ last' = [NoOp EXCEPT !.op = "ResetMinute"]
  /\ UNCHANGED <<cfg, acctNew, trace, files>>
  /\ RLIdle

RLResetHour ==
  /\ cfg.Enabled
  /\ rl' = ResetHourCounts(rl)
  /\ last' = [NoOp EXCEPT !.op = "ResetHour"]
  /\ UNCHANGED <<cfg, acctNew, trace, files>>
  /\ RLIdle

RLUnban(u) ==
  /\ rl' = UnbanAndWhitelistUser(rl, u)
  /\ files' = SaveToFile(files, rl', TRUE)
  /\ last' = [NoOp EXCEPT !.op = "Unban", !.user = u]
  /\ UNCHANGED <<cfg, acctNew, trace>>
  /\ RLIdle

\* an account grows older than the new-account period
RLAccountAges(u) ==
  /\ acctNew[u]
  /\ acctNew' = [acctNew EXCEPT ![u] = FALSE]
  /\ UNCHANGED <<cfg, rl, last, trace, files>>
  /\ RLIdle

RLNext ==
  \/ \E u \in Users : RLIncrement(u)
  \/ RLResetMinute
  \/ RLResetHour
  \/ \E u \in Users : RLUnban(u)
  \/ \E u \in Users : RLAccountAges(u)

SpecRL == RLInit /\ [][RLNext]_vars

(***************************************************************************)
(* SpecEscalation: scenario 3.  maxPerHour = 3, threshold = 2, the minute  *)
(* limit not binding; U is an established account that calls Increment     *)
(* again and again inside one hour window (no hour tick), while another    *)
(* user calls Increment too and the minute goroutine ticks.                *)
(***************************************************************************)
EscU == "u1"
EscV == "u2"

EscInit ==
  /\ cfg = EscalationConfig
  /\ rl = NewRateLimiter
  /\ acctNew \in {[u \in Accounts |-> FALSE], [u \in Accounts |-> u = EscV]}
  /\ last = NoOp
  /\ trace = <<>>
  /\ text = <<>> /\ verdict = "unchecked"
  /\ OrchOff

EscIncrementU ==
  /\ Len(trace) < MaxCalls
  /\ \E env \in CallOutcomes :
       LET res == Increment(rl, EscU, env) IN
       /\ rl' = res.rl
       /\ last' = [op |-> "Increment", user |-> EscU, ok |-> res.ok,
                   why |-> res.why, notified |-> res.notified]
       /\ trace' = Append(trace,
                     [ok |-> res.ok, why |-> res.why, notified |-> res.notified,
                      dmOk |-> res.notified # "none" /\ env.acctOk /\ env.postOk,
                      exceed |-> res.rl.ExceededCounts[EscU],
                      banned |-> EscU \in res.rl.ShadowBanned])
       /\ files' = IF IncrementSaves(rl, EscU)
                     THEN SaveToFile(files, res.rl, TRUE) ELSE files
  /\ UNCHANGED <<cfg, acctNew>>
  /\ RLIdle

EscIncrementV ==
  /\ RLIncrement(EscV)

EscResetMinute ==
  /\ RLResetMinute

EscNext ==
  \/ EscIncrementU
  \/ EscIncrementV
  \/ EscResetMinute

SpecEscalation == EscInit /\ [][EscNext]_vars

(***************************************************************************)
(* Claims about the rate limiter                                           *)
(***************************************************************************)

\* C3: in every reachable state, for every user u, exceedCount[u] is above
\* the shadow-ban threshold only if u is shadow-banned or whitelisted.
C3_ExceedImpliesBannedOrWhitelisted ==
  \A u \in Users :
    rl.ExceededCounts[u] > cfg.ShadowBanThreshold
      => (u \in rl.ShadowBanned \/ u \in rl.Whitelist)

\* a whitelisted user has just breached a limit past the threshold
C3_Witness ==
  \E u \in Users :
    /\ last.op = "Increment" /\ last.user = u /\ ~last.ok
    /\ rl.ExceededCounts[u] > cfg.ShadowBanThreshold
    /\ u \in rl.Whitelist

\* C6: ShadowBan and Whitelist are disjoint in every reachable state, and a
\* user who is in Whitelist stays there and is never put (back) into
\* ShadowBan by any later step, however often a limit is breached.
C6_WhitelistPermanent ==
  /\ [](rl.ShadowBanned \cap rl.Whitelist = {})
  /\ [][\A u \in Users :
          u \in rl.Whitelist
            => (u \in rl.Whitelist' /\ u \notin rl.ShadowBanned')]_vars

\* a whitelisted user breaches a limit with exceedCount at or past the threshold
C6_Witness ==
  \E u \in Users :
    /\ last.op = "Increment" /\ last.user = u
    /\ last.why \in {"minute", "hour"}
    /\ u \in rl.Whitelist
    /\ rl.ExceededCounts[u] >= cfg.ShadowBanThreshold

\* C7: a minute-reset tick leaves every minuteCount at 0, an hour-reset tick
\* leaves every hourCount and every exceedCount at 0, and neither tick
\* changes ShadowBan or Whitelist.
C7_ResetTicks ==
  [][ /\ RLResetMinute =>
          /\ \A u \in Users : rl'.MinuteCounts[u] = 0
          /\ rl'.ShadowBanned = rl.ShadowBanned
          /\ rl'.Whitelist = rl.Whitelist
      /\ RLResetHour =>
          /\ \A u \in Users : rl'.HourCounts[u] = 0 /\ rl'.ExceededCounts[u] = 0
          /\ rl'.ShadowBanned = rl.ShadowBanned
          /\ rl'.Whitelist = rl.Whitelist ]_vars

\* an hour-reset tick has just run while a user is shadow-banned
C7_Witness ==
  /\ last.op = "ResetHour"
  /\ rl.ShadowBanned # {}
  /\ \A u \in Users : rl.ExceededCounts[u] = 0

(***************************************************************************)
(* Affirmative detection (consent module: checkAndRecordConsent,           *)
(* containsWholeWord, isLetter).  A text is a sequence of characters.      *)
(***************************************************************************)
LowerSeq == <<"a","b","c","d","e","f","g","h","i","j","k","l","m",
              "n","o","p","q","r","s","t","u","v","w","x","y","z">>
UpperSeq == <<"A","B","C","D","E","F","G","H","I","J","K","L","M",
              "N","O","P","Q","R","S","T","U","V","W","X","Y","Z">>

isLetter(b) ==
  \/ \E i \in 1..Len(LowerSeq) : LowerSeq[i] = b
  \/ \E i \in 1..Len(UpperSeq) : UpperSeq[i] = b

\* strings.ToLower on the characters of the model
lowerChar(c) ==
  IF \E i \in 1..Len(UpperSeq) : UpperSeq[i] = c
    THEN LowerSeq[CHOOSE i \in 1..Len(UpperSeq) : UpperSeq[i] = c]
    ELSE c

ToLower(t) == [i \in 1..Len(t) |-> lowerChar(t[i])]

\* strings.Contains
containsWord(t, word) ==
  \E i \in 0..(Len(t) - Len(word)) : SubSeq(t, i + 1, i + Len(word)) = word

\* the loop of containsWholeWord, from offset i (0-based, as in the code)
RECURSIVE wholeWordFrom(_, _, _)
wholeWordFrom(t, word, i) ==
  IF i > Len(t) - Len(word) THEN FALSE
  ELSE IF SubSeq(t, i + 1, i + Len(word)) # word
    THEN wholeWordFrom(t, word, i + 1)
  ELSE
    LET leftOk  == i = 0 \/ ~isLetter(t[i])
        rightOk == i + Len(word) = Len(t) \/ ~isLetter(t[i + Len(word) + 1])
    IN IF leftOk /\ rightOk THEN TRUE ELSE wholeWordFrom(t, word, i + 1)

\* mutant of containsWholeWord: a plain substring search
containsWholeWord_Substring(t, word) ==
  \E i \in 0..(Len(t) - Len(word)) : SubSeq(t, i + 1, i + Len(word)) = word

containsWholeWord(t, word) ==
  IF t = word THEN TRUE ELSE wholeWordFrom(t, word, 0)

affirmativeResponses ==
  << <<"y","e","s">>,
     <<"a","g","r","e","e">>,
     <<"i"," ","a","g","r","e","e">>,
     <<"c","o","n","s","e","n","t">>,
     <<"i"," ","c","o","n","s","e","n","t">>,
     <<"o","k">>,
     <<"o","k","a","y">>,
     <<"j","a">>,
     <<"o","u","i">>,
     <<"s","i">> >>

\* the test of checkAndRecordConsent on the stripped body
isAffirmative(plainTextContent) ==
  IF plainTextContent = <<>> THEN FALSE
  ELSE LET responseText == ToLower(plainTextContent) IN
       \E k \in 1..Len(affirmativeResponses) :
         containsWholeWord(responseText, affirmativeResponses[k])

(***************************************************************************)
(* SpecWord: the affirmative check applied to a message body               *)
(***************************************************************************)
WordAlphabet == {"y", "e", "s", "Y", "o", "k", "!", " "}

RECURSIVE SeqsUpTo(_)
SeqsUpTo(n) ==
  IF n = 0 THEN {<<>>}
  ELSE LET shorter == SeqsUpTo(n - 1) IN
       shorter \cup {Append(q, c) : q \in {x \in shorter : Len(x) = n - 1},
                                    c \in WordAlphabet}

SampleTexts ==
  { <<"y","e","s","t","e","r","d","a","y">>,
    <<"e","y","e","s">>,
    <<"Y","e","s","!">>,
    <<"y","e","s",".">>,
    <<"I"," ","a","g","r","e","e",".">>,
    <<"d","i","s","a","g","r","e","e">>,
    <<"n","o"," ","c","o","n","s","e","n","t","s">>,
    <<"O","U","I",","," ","m","e","r","c","i">>,
    <<"j","a","m">>,
    <<"s","i","!">>,
    <<"o","k","a","y","s">>,
    <<"@","b","o","t"," ","O","K","A","Y">> }

WordInit ==
  /\ text \in SeqsUpTo(MaxTextLen) \cup SampleTexts
  /\ verdict = "unchecked"
  /\ cfg = EscalationConfig
  /\ rl = NewRateLimiter
  /\ acctNew = [u \in Accounts |-> FALSE]
  /\ last = NoOp
  /\ trace = <<>>
  /\ OrchOff

WordCheck ==
  /\ verdict = "unchecked"
  /\ verdict' = IF isAffirmative(text) THEN "accept" ELSE "reject"
  /\ UNCHANGED <<text, cfg, rl, acctNew, last, trace, orchVars, files,
                 applied, apiVars, checker>>

WordNext == WordCheck

SpecWord == WordInit /\ [][WordNext]_vars

(***************************************************************************)
(* Claims about affirmative detection (SpecWord)                           *)
(***************************************************************************)
ClaimTokens ==
  { <<"y","e","s">>, <<"a","g","r","e","e">>, <<"i"," ","a","g","r","e","e">>,
    <<"c","o","n","s","e","n","t">>, <<"i"," ","c","o","n","s","e","n","t">>,
    <<"o","k">>, <<"o","k","a","y">>, <<"j","a">>, <<"o","u","i">>, <<"s","i">> }

AsciiLetters ==
  {"a","b","c","d","e","f","g","h","i","j","k","l","m","n","o","p","q","r",
   "s","t","u","v","w","x","y","z",
   "A","B","C","D","E","F","G","H","I","J","K","L","M","N","O","P","Q","R",
   "S","T","U","V","W","X","Y","Z"}

\* token tok stands in t at position i (1-based), ignoring case
StandsAt(t, tok, i) ==
  /\ i + Len(tok) - 1 <= Len(t)
  /\ \A j \in 1..Len(tok) : lowerChar(t[i + j - 1]) = tok[j]

\* some token stands in t with no ASCII letter right before and right after
OccursAsWholeWord(t) ==
  \E tok \in ClaimTokens : \E i \in 1..Len(t) :
    /\ StandsAt(t, tok, i)
    /\ (i = 1 \/ t[i - 1] \notin AsciiLetters)
    /\ (i + Len(tok) - 1 = Len(t) \/ t[i + Len(tok)] \notin AsciiLetters)

C4_AsStated ==
  /\ \A i \in 1..Len(trace) : i <= 3 => trace[i].ok
  /\ Len(trace) >= 4 =>
       /\ ~trace[4].ok
       /\ trace[4].banned
       /\ \E i \in 1..4 : trace[i].notified = "posted"
  /\ Len(trace) >= 5 =>
       /\ ~trace[5].ok
       /\ trace[5].why = "banned"
       /\ trace[5].exceed = 2

\* C4 amended: calls 1-3 allow; calls 4 and 5 are both denied by the hourly
\* limit; the 4th leaves exceedCount at 1 and U not banned, with no admin
\* notification; the 5th raises exceedCount to 2, puts U in ShadowBan and
\* attempts the admin notification (the DM is posted when the account lookup
\* and the post succeed); from the 6th call on U is rejected by the
\* shadow-ban check and no counter changes.
C4_Escalation ==
  \A i \in 1..Len(trace) :
    /\ i <= 3 => trace[i].ok /\ trace[i].why = "ok" /\ trace[i].exceed = 0
                  /\ ~trace[i].banned /\ trace[i].notified = "none"
    /\ i = 4 => ~trace[i].ok /\ trace[i].why = "hour" /\ trace[i].exceed = 1
                  /\ ~trace[i].banned /\ trace[i].notified = "none"
    /\ i = 5 => ~trace[i].ok /\ trace[i].why = "hour" /\ trace[i].exceed = 2
                  /\ trace[i].banned /\ trace[i].notified # "none"
                  /\ (trace[i].notified = "posted" <=> trace[i].dmOk)
    /\ i >= 6 => ~trace[i].ok /\ trace[i].why = "banned" /\ trace[i].exceed = 2
                  /\ trace[i].banned /\ trace[i].notified = "none"
                  /\ rl.HourCounts[EscU] = 3

\* U has made its 5th call and the admin DM went out
C4_Witness ==
  /\ Len(trace) = 5
  /\ trace[5].banned
  /\ trace[5].notified = "posted"
  /\ EscU \in rl.ShadowBanned


(***************************************************************************)
(* The platform and the messages on it                                     *)
(***************************************************************************)
\* the privacy-policy link, one symbol of a message body
PrivacyURL == "https://github.com/micr0-dev/Altbot/blob/main/PRIVACY.md"

\* main.go 169-170: no video or audio model is configured
videoProcessingCapability == FALSE
audioProcessingCapability == FALSE

Image == [type |-> "image", hasDesc |-> FALSE]

\* the posts with media that exist when the bot starts
SourcePosts ==
  << [author |-> "u1", replyTo |-> None, vis |-> "public",
      body |-> <<"p","i","c">>, atts |-> <<Image>>],
     [author |-> "u2", replyTo |-> None, vis |-> "unlisted",
      body |-> <<"p","i","c","s">>, atts |-> <<Image, Image>>] >>

\* stripHTMLTags(status.Content) of what the accounts write to the bot
PlainBody == <<"@","b"," ","a","l","t","?">>
YesBody == <<"@","b"," ","Y","e","s">>
AgreeBody == <<"I"," ","a","g","r","e","e">>
AcctChars(a) ==
  IF a = "u1" THEN <<"u","1">> ELSE IF a = "u2" THEN <<"u","2">> ELSE <<"a">>
UnbanBody(u) == <<"@","b"," ","u","n","b","a","n"," ">> \o AcctChars(u)
AccountOf(chars) ==
  IF \E a \in Accounts : AcctChars(a) = chars
    THEN CHOOSE a \in Accounts : AcctChars(a) = chars
    ELSE "?"

\* what a user sends as a mention, and what the admin contact sends
UserShapes ==
  { [body |-> PlainBody, vis |-> "public"],
    [body |-> YesBody,   vis |-> "direct"],
    [body |-> AgreeBody, vis |-> "direct"] }
AdminShapes == { [body |-> UnbanBody("u1"), vis |-> "direct"] }
ShapesOf(a) == IF a = Admin THEN AdminShapes ELSE UserShapes

\* the localized texts (localizations.json): which of them carry the link
BotBody(kind) ==
  IF kind \in {"gdprConsentRequest", "gdprWelcomeMessage", "consentRequest"}
    THEN <<"c","o","n","s","e","n","t","?"," ", PrivacyURL>>
    ELSE IF kind = "altTextReminder" THEN <<"a","l","t","!">>
    ELSE <<"-">>

\* strings.Fields: the maximal runs of non-space characters
RECURSIVE FieldsFrom(_, _, _)
FieldsFrom(t, i, cur) ==
  IF i > Len(t)
    THEN IF cur = <<>> THEN <<>> ELSE <<cur>>
  ELSE IF t[i] = " "
    THEN IF cur = <<>> THEN FieldsFrom(t, i + 1, <<>>)
                       ELSE <<cur>> \o FieldsFrom(t, i + 1, <<>>)
  ELSE FieldsFrom(t, i + 1, Append(cur, t[i]))
Fields(t) == FieldsFrom(t, 1, <<>>)

\* Go maps as functions on their key set
MapPut(m, k, v) == [x \in DOMAIN m \cup {k} |-> IF x = k THEN v ELSE m[x]]
MapDel(m, k) == [x \in DOMAIN m \ {k} |-> m[x]]

\* outcomes of the platform and disk calls one event handler makes: all
\* succeed, or one kind of call fails
EventOutcomes ==
  { [getOk |-> TRUE,  get2Ok |-> TRUE,  postOk |-> TRUE,  saveOk |-> TRUE],
    [getOk |-> FALSE, get2Ok |-> TRUE,  postOk |-> TRUE,  saveOk |-> TRUE],
    [getOk |-> TRUE,  get2Ok |-> FALSE, postOk |-> TRUE,  saveOk |-> TRUE],
    [getOk |-> TRUE,  get2Ok |-> TRUE,  postOk |-> FALSE, saveOk |-> TRUE],
    [getOk |-> TRUE,  get2Ok |-> TRUE,  postOk |-> TRUE,  saveOk |-> FALSE] }

(***************************************************************************)
(* The state the handlers work on, as one record, and its write-back       *)
(***************************************************************************)
World ==
  [statuses |-> statuses, consentDB |-> consentDB, consentMu |-> consentMu,
   pendingGDPRMutex |-> pendingGDPRMutex,
   pendingGDPRRequests |-> pendingGDPRRequests,
   consentRequests |-> consentRequests, replyMap |-> replyMap,
   altTextChecks |-> altTextChecks, files |-> files, rl |-> rl,
   loop |-> loop, job |-> job, out |-> out]

Commit(w) ==
  /\ statuses' = w.statuses
  /\ consentDB' = w.consentDB
  /\ consentMu' = w.consentMu
  /\ pendingGDPRMutex' = w.pendingGDPRMutex
  /\ pendingGDPRRequests' = w.pendingGDPRRequests
  /\ consentRequests' = w.consentRequests
  /\ replyMap' = w.replyMap
  /\ altTextChecks' = w.altTextChecks
  /\ files' = w.files
  /\ rl' = w.rl
  /\ loop' = w.loop
  /\ job' = w.job
  /\ out' = w.out

\* the tables as a first start finds them: nothing stored, and no
\* revocation that could have locked the consent database
TablesEmpty ==
  /\ consentDB = {} /\ consentMu = "free" /\ pendingGDPRMutex = "free"
  /\ DOMAIN pendingGDPRRequests = {}
  /\ DOMAIN consentRequests = {} /\ DOMAIN replyMap = {}

\* what the history variable holds when the handling of an event starts
NewOut(ev, who, id) ==
  [ev |-> ev, who |-> who, id |-> id,
   preEmpty |-> TablesEmpty,
   hadPending |-> who \in DOMAIN pendingGDPRRequests,
   hadReply |-> IF id \in DOMAIN replyMap THEN replyMap[id].ReplyID ELSE None,
   posts |-> <<>>, deletes |-> <<>>,
   origin |-> "none", srcAuthor |-> "-", srcConsent |-> FALSE,
   bannedAtStart |-> FALSE, provider |-> {}, failed |-> {},
   attribution |-> FALSE, finished |-> FALSE]

GetStatus(w, id) == w.statuses[id]

\* c.PostStatus: on success the status exists and has the next id
PostStatus(w, kind, replyTo, vis, ok) ==
  LET id == IF ok THEN Len(w.statuses) + 1 ELSE None
      w1 == [w EXCEPT !.out.posts =
               Append(@, [kind |-> kind, replyTo |-> replyTo, vis |-> vis,
                          id |-> id])]
  IN IF ok
       THEN [w1 EXCEPT !.statuses =
               Append(@, [author |-> Bot, replyTo |-> replyTo, vis |-> vis,
                          body |-> BotBody(kind), atts |-> <<>>])]
       ELSE w1

\* the handler waits for a mutex which nobody will unlock
Blocked(w) == [w EXCEPT !.loop = "blocked"]


(***************************************************************************)
(* GDPR consent (the consent module)                                       *)
(***************************************************************************)
\* json.MarshalIndent(consentDB.Users): one object per user, under the
\* json tags of ConsentRecord (its time and method are not modelled)
MarshalConsent(users) == [u \in users |-> [user_id |-> u]]

\* json.Unmarshal(data, &consentDB.Users): the keys of the object
UnmarshalConsent(d) == DOMAIN d

saveConsentDatabase(w, ok) ==
  IF ok THEN [w EXCEPT !.files.consent = <<MarshalConsent(w.consentDB)>>]
        ELSE w

loadConsentDatabase(f) == UnmarshalConsent(f.consent[1])

\* a missing file is created from the empty map
InitializeConsentDatabase(w, ok) ==
  IF w.files.consent = <<>>
    THEN saveConsentDatabase([w EXCEPT !.consentDB = {}], ok)
    ELSE [w EXCEPT !.consentDB = loadConsentDatabase(w.files)]

HasUserConsent(w, userID) == userID \in w.consentDB

\* mutant of RecordUserConsent: the file is not written
RecordUserConsent_NoSave(w, userID, ok) ==
  [w EXCEPT !.consentDB = @ \cup {userID}]

\* the map is written before the file is; the write-back may fail
RecordUserConsent(w, userID, ok) ==
  saveConsentDatabase([w EXCEPT !.consentDB = @ \cup {userID}], ok)

\* the pending requests under the json tags of PendingGDPRRequest; the
\* timestamp is kept as "older than pendingGDPRExpirationDays or not"
MarshalPending(m) ==
  [u \in DOMAIN m |-> [user_id |-> u,
                        request_status_id |-> m[u].RequestStatusID,
                        timestamp |-> m[u].old]]

UnmarshalPending(d) ==
  [u \in DOMAIN d |-> [RequestStatusID |-> d[u].request_status_id,
                        old |-> d[u].timestamp]]

savePendingGDPRRequests(w, ok) ==
  IF ok THEN [w EXCEPT !.files.pending = <<MarshalPending(w.pendingGDPRRequests)>>]
        ELSE w

\* mutant of InitializePendingGDPRRequests: everything in the file is kept
InitializePendingGDPRRequests_KeepExpired(w) ==
  IF w.files.pending = <<>> THEN w
  ELSE [w EXCEPT !.pendingGDPRRequests = UnmarshalPending(w.files.pending[1])]

\* the expired requests are dropped as the file is loaded
InitializePendingGDPRRequests(w) ==
  IF w.files.pending = <<>> THEN w
  ELSE LET m == UnmarshalPending(w.files.pending[1]) IN
       [w EXCEPT !.pendingGDPRRequests =
          [u \in {x \in DOMAIN m : ~m[x].old} |-> m[u]]]

AddPendingGDPRRequest(w, userID, requestStatusID, ok) ==
  IF w.pendingGDPRMutex = "held" THEN Blocked(w)
  ELSE savePendingGDPRRequests(
         [w EXCEPT !.pendingGDPRRequests =
            MapPut(@, userID,
                   [RequestStatusID |-> requestStatusID, old |-> FALSE])],
         ok)

\* mutant of GetPendingGDPRRequest: the age of the entry is not looked at
GetPendingGDPRRequest_AnyAge(w, userID) ==
  IF w.pendingGDPRMutex = "held" THEN [w |-> Blocked(w), found |-> FALSE]
  ELSE IF userID \notin DOMAIN w.pendingGDPRRequests
    THEN [w |-> w, found |-> FALSE]
  ELSE [w |-> w, found |-> TRUE]

\* an entry older than pendingGDPRExpirationDays is dropped by the lookup
GetPendingGDPRRequest(w, userID) ==
  IF w.pendingGDPRMutex = "held" THEN [w |-> Blocked(w), found |-> FALSE]
  ELSE IF userID \notin DOMAIN w.pendingGDPRRequests
    THEN [w |-> w, found |-> FALSE]
  ELSE IF w.pendingGDPRRequests[userID].old
    THEN [w |-> [w EXCEPT !.pendingGDPRRequests = MapDel(@, userID)],
          found |-> FALSE]
  ELSE [w |-> w, found |-> TRUE]

RemovePendingGDPRRequest(w, userID, ok) ==
  IF w.pendingGDPRMutex = "held" THEN Blocked(w)
  ELSE savePendingGDPRRequests(
         [w EXCEPT !.pendingGDPRRequests = MapDel(@, userID)], ok)

\* mutant of CleanupExpiredGDPRRequests: every request is removed
CleanupExpiredGDPRRequests_All(w) ==
  IF w.pendingGDPRMutex = "held" THEN w
  ELSE [w EXCEPT !.pendingGDPRRequests = <<>>,
                 !.pendingGDPRMutex =
                    IF DOMAIN w.pendingGDPRRequests # {} THEN "held" ELSE @]

\* the daily sweep of the pending requests, in a goroutine of its own. It
\* holds pendingGDPRMutex until it returns; when it has removed something
\* it calls savePendingGDPRRequests, which locks pendingGDPRMutex again:
\* the file is not written, the goroutine never returns and the mutex
\* stays locked. With the mutex already locked the sweep waits and does
\* nothing.
CleanupExpiredGDPRRequests(w) ==
  LET expired == {u \in DOMAIN w.pendingGDPRRequests :
                    w.pendingGDPRRequests[u].old}
  IN IF w.pendingGDPRMutex = "held" THEN w
     ELSE IF expired # {}
       THEN [w EXCEPT !.pendingGDPRRequests =
                         [u \in DOMAIN @ \ expired |-> @[u]],
                      !.pendingGDPRMutex = "held"]
     ELSE w

\* the consent DM; the pending entry is added only when the post went out
RequestGDPRConsent(w, userID, replyToID, isStandaloneMsg, env) ==
  LET kind == IF isStandaloneMsg THEN "gdprWelcomeMessage"
                                 ELSE "gdprConsentRequest"
      w1 == PostStatus(w, kind, replyToID, "direct", env.postOk)
  IN IF ~env.postOk THEN w1
     ELSE AddPendingGDPRRequest(w1, userID, Len(w1.statuses), env.saveOk)

sendConsentConfirmation(w, id, env) ==
  PostStatus(w, "gdprConsentConfirmation", id, "direct", env.postOk)

\* mutant of checkAndRecordConsent: the confirmation is not sent
checkAndRecordConsent_Silent(w, id, userID, env) ==
  LET status == w.statuses[id] IN
  IF status.body = <<>> \/ ~isAffirmative(status.body)
    THEN [w |-> w, ret |-> FALSE]
  ELSE IF w.consentMu = "held" THEN [w |-> Blocked(w), ret |-> FALSE]
  ELSE [w |-> RecordUserConsent(w, userID, env.saveOk), ret |-> env.saveOk]

checkAndRecordConsent(w, id, userID, env) ==
  LET status == w.statuses[id] IN
  IF status.body = <<>> THEN [w |-> w, ret |-> FALSE]
  ELSE IF ~isAffirmative(status.body) THEN [w |-> w, ret |-> FALSE]
  ELSE IF w.consentMu = "held" THEN [w |-> Blocked(w), ret |-> FALSE]
  ELSE LET w1 == RecordUserConsent(w, userID, env.saveOk) IN
       IF ~env.saveOk THEN [w |-> w1, ret |-> FALSE]
       ELSE [w |-> sendConsentConfirmation(w1, id, env), ret |-> TRUE]

handleReplyBasedConsent(w, id, userID, env) ==
  IF ~env.get2Ok THEN [w |-> w, ret |-> FALSE]
  ELSE LET parentStatus == GetStatus(w, w.statuses[id].replyTo) IN
    IF ~containsWord(parentStatus.body, <<PrivacyURL>>)
      THEN [w |-> w, ret |-> FALSE]
    ELSE LET r == checkAndRecordConsent(w, id, userID, env) IN
      IF r.ret THEN [w |-> RemovePendingGDPRRequest(r.w, userID, env.saveOk),
                     ret |-> TRUE]
               ELSE [w |-> r.w, ret |-> FALSE]

handleNonReplyConsent(w, id, userID, env) ==
  LET p == GetPendingGDPRRequest(w, userID) IN
  IF ~p.found THEN [w |-> p.w, ret |-> FALSE]
  ELSE LET r == checkAndRecordConsent(p.w, id, userID, env) IN
    IF r.ret THEN [w |-> RemovePendingGDPRRequest(r.w, userID, env.saveOk),
                     ret |-> TRUE]
             ELSE [w |-> r.w, ret |-> FALSE]

HandleGDPRConsentResponse(w, id, env) ==
  LET status == w.statuses[id]
      userID == status.author
  IN IF status.replyTo # None THEN handleReplyBasedConsent(w, id, userID, env)
     ELSE IF status.vis = "direct" THEN handleNonReplyConsent(w, id, userID, env)
     ELSE [w |-> w, ret |-> FALSE]


(***************************************************************************)
(* The handlers (main.go)                                                  *)
(***************************************************************************)
isDNI(acct) == acct = Bot \/ acct \in config.DNI

\* the attachment test of requestConsent and handleUpdate, with Go's
\* precedence: video || (gifv && videoCap) || (audio && audioCap)
Supported(att) ==
  \/ att.type = "image"
  \/ att.type = "video"
  \/ (att.type = "gifv" /\ videoProcessingCapability)
  \/ (att.type = "audio" /\ audioProcessingCapability)

\* what the caller of generateAndPostAltText does when the call returns
\* json.Marshal(consentRequests): ConsentRequest has no json tags; the
\* timestamp is kept as "older than 30 days or not"
MarshalRequests(m) ==
  [k \in DOMAIN m |-> [RequestID |-> m[k].RequestID, Timestamp |-> m[k].old]]

UnmarshalRequests(d) ==
  [k \in DOMAIN d |-> [RequestID |-> d[k].RequestID, old |-> d[k].Timestamp]]

saveConsentRequestsToFile(w, ok) ==
  IF ok THEN [w EXCEPT !.files.requests = <<MarshalRequests(w.consentRequests)>>]
        ELSE w

\* a missing file gives the empty map
loadConsentRequestsFromFile(w) ==
  IF w.files.requests = <<>> THEN [w EXCEPT !.consentRequests = <<>>]
  ELSE [w EXCEPT !.consentRequests = UnmarshalRequests(w.files.requests[1])]

\* the hourly sweep of the per-post consent requests (the file is not
\* rewritten)
cleanupOldConsentRequests(w) ==
  [w EXCEPT !.consentRequests =
     [k \in {x \in DOMAIN @ : ~@[x].old} |-> @[k]]]

\* the end of handleConsentResponse: the request is forgotten and the
\* file rewritten
RunAfter(w, after, ok) ==
  IF after = None THEN w
  ELSE saveConsentRequestsToFile(
         [w EXCEPT !.consentRequests = MapDel(@, after)], ok)

\* generateAndPostAltText up to the start of the attachment goroutines
generateAndPostAltText(w, statusID, replyToID, origin, after, env) ==
  IF ~env.get2Ok THEN RunAfter(w, after, env.saveOk)
  ELSE
    LET status == GetStatus(w, statusID)
        replyPost == GetStatus(w, replyToID)
    IN [w EXCEPT
          !.loop = "job",
          !.job = [src |-> statusID, replyTo |-> replyToID,
                   requester |-> replyPost.author, after |-> after,
                   pc |-> [i \in 1..Len(status.atts) |-> "start"],
                   responses |-> <<>>, sucessCount |-> 0,
                   altTextAlreadyExists |-> FALSE,
                   reg |-> [i \in 1..Len(status.atts) |-> 0]],
          !.out.origin = origin,
          !.out.srcAuthor = status.author,
          !.out.srcConsent = status.author \in w.consentDB,
          !.out.bannedAtStart = replyPost.author \in w.rl.ShadowBanned]

requestConsent(w, statusID, n, env) ==
  LET status == GetStatus(w, statusID)
      hasAltText == \A i \in 1..Len(status.atts) :
                      ~(~status.atts[i].hasDesc /\ Supported(status.atts[i]))
  IN IF hasAltText THEN w
     ELSE IF statusID \in DOMAIN w.consentRequests THEN w
     ELSE saveConsentRequestsToFile(
            PostStatus(
              [w EXCEPT !.consentRequests =
                 MapPut(@, statusID, [RequestID |-> n.id, old |-> FALSE])],
              "consentRequest", statusID, status.vis, env.postOk),
            env.saveOk)

\* mutant of handleMention: the author's own request skips the consent check
handleMention_NoConsent(w, n, env) ==
  LET m == w.statuses[n.id] IN
  IF isDNI(n.acct) \/ m.replyTo = None \/ ~env.get2Ok THEN w
  ELSE IF Len(GetStatus(w, m.replyTo).atts) = 0 THEN w
  ELSE IF GetStatus(w, m.replyTo).author = n.acct \/ ~config.AskForConsent
    THEN generateAndPostAltText(w, m.replyTo, n.id,
           IF GetStatus(w, m.replyTo).author = n.acct THEN "own" ELSE "third",
           None, env)
  ELSE requestConsent(w, m.replyTo, n, env)

handleMention(w, n, env) ==
  LET m == w.statuses[n.id] IN
  IF isDNI(n.acct) THEN w
  ELSE IF m.replyTo = None THEN w
  ELSE IF ~env.get2Ok THEN w
  ELSE LET status == GetStatus(w, m.replyTo) IN
    IF Len(status.atts) = 0 THEN w
    ELSE IF status.author = n.acct
      THEN IF w.consentMu = "held" THEN Blocked(w)
           ELSE IF ~HasUserConsent(w, n.acct)
             THEN RequestGDPRConsent(w, n.acct, n.id, FALSE, env)
           ELSE generateAndPostAltText(w, m.replyTo, n.id, "own", None, env)
    ELSE IF ~config.AskForConsent
      THEN generateAndPostAltText(w, m.replyTo, n.id, "third", None, env)
    ELSE requestConsent(w, m.replyTo, n, env)

\* mutant of handleConsentResponse: the answer of any account counts
handleConsentResponse_AnyAuthor(w, ID, consentID, env) ==
  IF ~env.get2Ok THEN w
  ELSE
    LET status == GetStatus(w, ID)
        consentStatus == w.statuses[consentID]
        consentResponse == Fields(consentStatus.body)
    IN IF consentStatus.body = <<>> THEN w
       ELSE IF Len(consentResponse) = 0 THEN w
       ELSE IF ToLower(consentResponse[Len(consentResponse)])
                 \in {<<"y">>, <<"y","e","s">>}
         THEN generateAndPostAltText(w, ID, consentID, "legacy", ID, env)
       ELSE RunAfter(w, ID, env.saveOk)

\* the per-post consent flow: the author's answer ends in "y" or "yes"
handleConsentResponse(w, ID, consentID, env) ==
  IF ~env.get2Ok THEN w
  ELSE
    LET status == GetStatus(w, ID)
        consentStatus == w.statuses[consentID]
        consentResponse == Fields(consentStatus.body)
    IN IF consentStatus.author # status.author THEN w
       ELSE IF consentStatus.body = <<>> THEN w
       ELSE IF Len(consentResponse) = 0 THEN w
       ELSE IF ToLower(consentResponse[Len(consentResponse)])
                 \in {<<"y">>, <<"y","e","s">>}
         THEN generateAndPostAltText(w, ID, consentID, "legacy", ID, env)
       ELSE RunAfter(w, ID, env.saveOk)

handleAdminReply(w, id, env) ==
  LET parts == Fields(ToLower(w.statuses[id].body)) IN
  IF Len(parts) = 3 /\ parts[2] = <<"u","n","b","a","n">>
    THEN LET r == UnbanAndWhitelistUser(w.rl, AccountOf(parts[3])) IN
         PostStatus(
           [w EXCEPT !.rl = r, !.files = SaveToFile(@, r, env.saveOk)],
           "unbanConfirmation", id, "direct", env.postOk)
    ELSE w

handleFollow(w, acct, env) ==
  IF w.consentMu = "held" THEN Blocked(w)
  ELSE IF ~HasUserConsent(w, acct)
    THEN RequestGDPRConsent(w, acct, None, TRUE, env)
  ELSE w

handleUpdate(w, statusID, env) ==
  LET status == GetStatus(w, statusID)
      missing == \E i \in 1..Len(status.atts) :
                   Supported(status.atts[i]) /\ ~status.atts[i].hasDesc
  IN IF status.author = Bot THEN w
     ELSE IF ~missing THEN w
     ELSE IF w.consentMu = "held" THEN Blocked(w)
     ELSE IF ~HasUserConsent(w, status.author)
       THEN RequestGDPRConsent(w, status.author, statusID, FALSE, env)
     ELSE generateAndPostAltText(w, statusID, statusID, "update", None, env)

\* mutant of handleDeleteEvent: the entry goes whatever DeleteStatus returns
handleDeleteEvent_AlwaysForget(w, originalID, delOk) ==
  IF originalID \in DOMAIN w.replyMap
    THEN [w EXCEPT !.out.deletes = Append(@, w.replyMap[originalID].ReplyID),
                   !.replyMap = MapDel(@, originalID)]
    ELSE w

handleDeleteEvent(w, originalID, delOk) ==
  IF originalID \in DOMAIN w.replyMap
    THEN LET w1 == [w EXCEPT !.out.deletes =
                      Append(@, w.replyMap[originalID].ReplyID)]
         IN IF delOk THEN [w1 EXCEPT !.replyMap = MapDel(@, originalID)]
                     ELSE w1
    ELSE w

\* the "mention" case of the event loop
MentionEvent(w, n, env) ==
  LET m == w.statuses[n.id]
      w1 == IF n.acct = Admin THEN handleAdminReply(w, n.id, env) ELSE w
  IN IF m.replyTo # None
       THEN IF ~env.getOk THEN w1
            ELSE
              LET parentStatus == GetStatus(w1, m.replyTo)
                  grandparentStatusID == parentStatus.replyTo
              IN IF grandparentStatusID \in DOMAIN w1.consentRequests
                   THEN handleConsentResponse(w1, grandparentStatusID, n.id, env)
                   ELSE LET r == HandleGDPRConsentResponse(w1, n.id, env) IN
                        IF r.w.loop = "blocked" THEN r.w
                        ELSE IF ~r.ret THEN handleMention(r.w, n, env)
                        ELSE r.w
       ELSE handleMention(w1, n, env)


(***************************************************************************)
(* Spec: the event loop, the generation job, the background goroutines     *)
(***************************************************************************)
\* the deployments a run starts from: the rate limits, the behaviour
\* switches and the consent database main() loads from its file
Deployments ==
  LET Behavior(ask, dni) ==
        [AskForConsent |-> ask, ReplyVisibility |-> "public",
         AltTextReminders |-> FALSE, DNI |-> dni]
      Tight == CHOOSE c \in RLConfigs : c.Enabled /\ c.ShadowBanThreshold = 1
      Loose == CHOOSE c \in RLConfigs : c.Enabled /\ c.ShadowBanThreshold = 2
      Off   == CHOOSE c \in RLConfigs : ~c.Enabled
  IN { [cfg |-> Tight, config |-> Behavior(FALSE, {}), consentDB |-> {}],
       [cfg |-> Loose, config |-> Behavior(TRUE, {}), consentDB |-> {"u1"}],
       [cfg |-> Off,   config |-> Behavior(FALSE, {"u2"}), consentDB |-> {}] }

Init ==
  /\ \E d \in Deployments :
       /\ cfg = d.cfg
       /\ config = d.config
       /\ consentDB = d.consentDB
       /\ files = [NoFiles EXCEPT !.consent = <<MarshalConsent(d.consentDB)>>]
  /\ rl = NewRateLimiter
  /\ acctNew = [u \in Accounts |-> FALSE]
  /\ last = NoOp
  /\ trace = <<>>
  /\ text = <<>> /\ verdict = "unchecked"
  /\ applied = <<>>
  /\ ApiOff
  /\ CheckerOff
  /\ statuses = SourcePosts
  /\ consentMu = "free"
  /\ pendingGDPRMutex = "free"
  /\ pendingGDPRRequests = <<>>
  /\ consentRequests = <<>>
  /\ replyMap = <<>>
  /\ altTextChecks = <<>>
  /\ loop = "idle"
  /\ job = NoJob
  /\ out = NoEvent
  /\ nEvents = 0
  /\ nTicks = 0

OrchFrame ==
  UNCHANGED <<cfg, config, acctNew, trace, text, verdict, applied, apiVars, checker>>

\* a "mention" notification: account a posted m, a reply to parent or not
EvMention(a, parent, shape, env) ==
  /\ loop = "idle" /\ nEvents < MaxEvents
  /\ LET id == Len(statuses) + 1
         m == [author |-> a, replyTo |-> parent, vis |-> shape.vis,
               body |-> shape.body, atts |-> <<>>]
         w0 == [World EXCEPT !.statuses = Append(@, m),
                             !.out = NewOut("mention", a, id)]
     IN Commit(MentionEvent(w0, [acct |-> a, id |-> id], env))
  /\ nEvents' = nEvents + 1
  /\ UNCHANGED <<last, nTicks>>
  /\ OrchFrame

EvFollow(a, env) ==
  /\ loop = "idle" /\ nEvents < MaxEvents
  /\ Commit(handleFollow([World EXCEPT !.out = NewOut("follow", a, None)],
                         a, env))
  /\ nEvents' = nEvents + 1
  /\ UNCHANGED <<last, nTicks>>
  /\ OrchFrame

\* an UpdateEvent for a post in the home timeline
EvUpdate(statusID, env) ==
  /\ loop = "idle" /\ nEvents < MaxEvents
  /\ Commit(handleUpdate(
       [World EXCEPT !.out = NewOut("update", statuses[statusID].author,
                                    statusID)],
       statusID, env))
  /\ nEvents' = nEvents + 1
  /\ UNCHANGED <<last, nTicks>>
  /\ OrchFrame

EvDelete(originalID, delOk) ==
  /\ loop = "idle" /\ nEvents < MaxEvents
  /\ Commit(handleDeleteEvent(
       [World EXCEPT !.out = NewOut("delete", statuses[originalID].author,
                                    originalID)],
       originalID, delOk))
  /\ nEvents' = nEvents + 1
  /\ UNCHANGED <<last, nTicks>>
  /\ OrchFrame

\* HandleBlockEvent(u). For a user with a record RemoveUserConsent deletes
\* the entry and then calls saveConsentDatabase with consentDB.mu still
\* locked: the file is not written, the caller never returns and the mutex
\* stays locked. For a user without a record nothing is done.
HandleBlockEvent(u) ==
  /\ nTicks < MaxTicks
  /\ nTicks' = nTicks + 1
  /\ consentMu = "free"
  /\ IF u \in consentDB
       THEN /\ consentDB' = consentDB \ {u}
            /\ consentMu' = "held"
       ELSE UNCHANGED <<consentDB, consentMu>>
  /\ UNCHANGED <<statuses, pendingGDPRMutex, pendingGDPRRequests,
                 consentRequests, replyMap, altTextChecks, files, rl, loop,
                 job, out, nEvents, last>>
  /\ OrchFrame

\* a block event of a user who has a record (one of a user without a
\* record changes nothing and is not counted)
BlockEvent(u) ==
  /\ u \in consentDB
  /\ HandleBlockEvent(u)


\* outcomes of the platform calls Increment makes in a job (the account
\* lookups, the notice to the admin): they succeed, or the platform is down
JobOutcomes ==
  { [fetchOk |-> TRUE,  acctOk |-> TRUE,  postOk |-> TRUE,  saveOk |-> TRUE],
    [fetchOk |-> FALSE, acctOk |-> FALSE, postOk |-> FALSE, saveOk |-> FALSE] }

\* the goroutines of one job, one per attachment of the source post
Workers == 1..Len(SourcePosts[2].atts)

\* a goroutine's call of rateLimiter.Increment for the reply target's author
WorkerIncrement(i, env) ==
  /\ loop = "job" /\ i \in DOMAIN job.pc /\ job.pc[i] = "start"
  /\ LET res == Increment(rl, job.requester, env)
         w1 == [World EXCEPT
                  !.rl = res.rl,
                  !.files = IF IncrementSaves(rl, job.requester)
                              THEN SaveToFile(@, res.rl, env.saveOk) ELSE @]
         w2 == IF res.notified \in {"posted", "post_failed"}
                 THEN PostStatus(w1, "shadowBanNotification", None, "direct",
                                 res.notified = "posted")
                 ELSE w1
     IN Commit(IF res.ok
                 THEN [w2 EXCEPT !.job.pc[i] = "classify"]
                 ELSE [w2 EXCEPT !.job.pc[i] = "done",
                                 !.job.responses = Append(@, "altTextError")])
  /\ UNCHANGED <<nEvents, nTicks, last>>
  /\ OrchFrame

\* mutant of WorkerGenerate: a goroutine whose model call failed returns
\* without an element
WorkerGenerate_DropFailed(i, genOk) ==
  /\ loop = "job" /\ i \in DOMAIN job.pc /\ job.pc[i] = "classify"
  /\ LET att == statuses[job.src].atts[i]
         toProvider ==
           \/ (att.type = "image" /\ ~att.hasDesc)
           \/ (att.type \in {"video", "gifv"} /\ videoProcessingCapability
                 /\ ~att.hasDesc)
           \/ (att.type = "audio" /\ audioProcessingCapability /\ ~att.hasDesc)
         w1 == [World EXCEPT !.job.pc[i] = "done"]
     IN Commit(
          IF toProvider
            THEN [w1 EXCEPT
                    !.out.provider = @ \cup {i},
                    !.out.failed = IF genOk THEN @ ELSE @ \cup {i},
                    !.job.responses =
                       IF genOk THEN Append(@, "altText") ELSE @,
                    !.job.sucessCount = IF genOk THEN @ + 1 ELSE @ - 1 + 1]
          ELSE IF att.hasDesc
            THEN IF ~job.altTextAlreadyExists
                   THEN [w1 EXCEPT
                           !.job.responses = Append(@, "imageAlreadyHasAltText"),
                           !.job.altTextAlreadyExists = TRUE]
                   ELSE w1
          ELSE IF videoProcessingCapability /\ audioProcessingCapability
            THEN [w1 EXCEPT !.job.responses = Append(@, "unsupportedFile")]
          ELSE [w1 EXCEPT !.job.responses = Append(@, "altTextError"),
                          !.job.sucessCount = @ - 1 + 1])
  /\ UNCHANGED <<nEvents, nTicks, last>>
  /\ OrchFrame

\* the rest of the goroutine: classify the attachment, call the provider
WorkerGenerate(i, genOk) ==
  /\ loop = "job" /\ i \in DOMAIN job.pc /\ job.pc[i] = "classify"
  /\ LET att == statuses[job.src].atts[i]
         toProvider ==
           \/ (att.type = "image" /\ ~att.hasDesc)
           \/ (att.type \in {"video", "gifv"} /\ videoProcessingCapability
                 /\ ~att.hasDesc)
           \/ (att.type = "audio" /\ audioProcessingCapability /\ ~att.hasDesc)
         w1 == [World EXCEPT !.job.pc[i] = "done"]
     IN Commit(
          IF toProvider
            THEN [w1 EXCEPT
                    !.out.provider = @ \cup {i},
                    !.out.failed = IF genOk THEN @ ELSE @ \cup {i},
                    !.job.responses =
                       Append(@, IF genOk THEN "altText" ELSE "altTextError"),
                    !.job.sucessCount = IF genOk THEN @ + 1 ELSE @ - 1 + 1]
          ELSE IF att.hasDesc
            THEN IF ~job.altTextAlreadyExists
                   THEN [w1 EXCEPT
                           !.job.responses = Append(@, "imageAlreadyHasAltText"),
                           !.job.altTextAlreadyExists = TRUE]
                   ELSE w1
          ELSE IF videoProcessingCapability /\ audioProcessingCapability
            THEN [w1 EXCEPT !.job.responses = Append(@, "unsupportedFile")]
          ELSE [w1 EXCEPT !.job.responses = Append(@, "altTextError"),
                          !.job.sucessCount = @ - 1 + 1])
  /\ UNCHANGED <<nEvents, nTicks, last>>
  /\ OrchFrame

\* the visibility switch of generateAndPostAltText: the more restricted of
\* the configured and the reply target's visibility, private turned direct
\* mutant of VisRank: unlisted counts as public
VisRank_Flat(v) ==
  IF v \in {"public", "unlisted"} THEN 0
  ELSE IF v = "private" THEN 2 ELSE 3

VisRank(v) ==
  IF v = "public" THEN 0 ELSE IF v = "unlisted" THEN 1
  ELSE IF v = "private" THEN 2 ELSE 3

\* the visibilities the switch has a case for
Visibilities == {"public", "unlisted", "private", "direct"}

\* mutant of MapVisibility: a private post is not turned into a direct reply
MapVisibility_KeepPrivate(replyVisibility, postVisibility) ==
  IF replyVisibility \in Visibilities /\ postVisibility \in Visibilities
       /\ VisRank(replyVisibility) > VisRank(postVisibility)
    THEN replyVisibility ELSE postVisibility

\* the sixteen cases give the more restricted of the two; any other
\* configured value leaves the visibility of the post
MapVisibility(replyVisibility, postVisibility) ==
  LET visibility ==
        IF replyVisibility \in Visibilities /\ postVisibility \in Visibilities
             /\ VisRank(replyVisibility) > VisRank(postVisibility)
          THEN replyVisibility ELSE postVisibility
  IN IF postVisibility = "private" THEN "direct" ELSE visibility

\* altTextChecks[post.ID] = AltTextCheck{...}
\* Timestamp: time.Now(), in minutes on the clock of the checker goroutine;
\* the specifications that do not run the checker keep no clock
timeNow == IF checker = <<>> THEN 0 ELSE checker.clock

queuePostForAltTextCheck(w, post, userID) ==
  [w EXCEPT !.altTextChecks =
     MapPut(@, post, [PostID |-> post, UserID |-> userID,
                      Timestamp |-> timeNow])]

\* replyMap[status.ID] = ReplyInfo{ReplyID: reply.ID, Timestamp: time.Now()}
TrackReply(w, src, replyID, now) ==
  [w EXCEPT !.replyMap =
     MapPut(@, src, [ReplyID |-> replyID, Timestamp |-> now])]

\* mutant of wgWait: the wait ends when the first goroutine is done
wgWait_First == \E i \in DOMAIN job.pc : job.pc[i] = "done"

\* wg.Wait() returns: every goroutine has run its deferred wg.Done()
wgWait == \A i \in DOMAIN job.pc : job.pc[i] = "done"

\* mutant of JobFinish: a fallback that was posted is remembered as the reply
JobFinish_TrackFallback(postOk, fallbackOk, saveOk) ==
  /\ loop = "job" /\ wgWait
  /\ LET replyPost == statuses[job.replyTo]
         visibility == MapVisibility(config.ReplyVisibility, replyPost.vis)
         w1 == PostStatus(World, "reply", job.replyTo, visibility, postOk)
         w2 == IF postOk THEN w1
               ELSE PostStatus(w1, "replyError", job.replyTo, visibility,
                               fallbackOk)
         remind == config.AltTextReminders /\ visibility # "direct"
     IN Commit(
          IF remind /\ consentMu = "held" THEN Blocked(w2)
          ELSE
            LET w3 == IF remind /\ HasUserConsent(w2, replyPost.author)
                        THEN queuePostForAltTextCheck(w2, job.src,
                                                      replyPost.author)
                        ELSE w2
                w4 == IF postOk \/ fallbackOk
                        THEN TrackReply(w3, job.src, Len(w2.statuses), nEvents)
                        ELSE w3
            IN [RunAfter(w4, job.after, saveOk) EXCEPT
                  !.loop = "idle", !.job = NoJob,
                  !.out.attribution = job.sucessCount > 0,
                  !.out.finished = TRUE])
  /\ UNCHANGED <<nEvents, nTicks, last>>
  /\ OrchFrame

\* after wg.Wait(): post the combined reply, remember it, return to the loop
JobFinish(postOk, fallbackOk, saveOk) ==
  /\ loop = "job" /\ wgWait
  /\ LET replyPost == statuses[job.replyTo]
         visibility == MapVisibility(config.ReplyVisibility, replyPost.vis)
         w1 == PostStatus(World, "reply", job.replyTo, visibility, postOk)
         w2 == IF postOk THEN w1
               ELSE PostStatus(w1, "replyError", job.replyTo, visibility,
                               fallbackOk)
         remind == config.AltTextReminders /\ visibility # "direct"
     IN Commit(
          IF remind /\ consentMu = "held" THEN Blocked(w2)
          ELSE
            LET w3 == IF remind /\ HasUserConsent(w2, replyPost.author)
                        THEN queuePostForAltTextCheck(w2, job.src,
                                                      replyPost.author)
                        ELSE w2
                w4 == IF postOk
                        THEN TrackReply(w3, job.src, Len(w1.statuses), nEvents)
                        ELSE w3
            IN [RunAfter(w4, job.after, saveOk) EXCEPT
                  !.loop = "idle", !.job = NoJob,
                  !.out.attribution = job.sucessCount > 0,
                  !.out.finished = TRUE])
  /\ UNCHANGED <<nEvents, nTicks, last>>
  /\ OrchFrame

\* the two reset goroutines of the rate limiter (a tick that finds every
\* counter at 0 changes nothing and is not counted)
ResetMinuteTick ==
  /\ nTicks < MaxTicks
  /\ nTicks' = nTicks + 1
  /\ cfg.Enabled
  /\ rl' = ResetMinuteCounts(rl)
  /\ rl' # rl
  /\ UNCHANGED <<statuses, consentDB, consentMu, pendingGDPRMutex, pendingGDPRRequests,
                 consentRequests, replyMap, altTextChecks, files, loop, job,
                 out, nEvents, last>>
  /\ OrchFrame

ResetHourTick ==
  /\ nTicks < MaxTicks
  /\ nTicks' = nTicks + 1
  /\ cfg.Enabled
  /\ rl' = ResetHourCounts(rl)
  /\ rl' # rl
  /\ UNCHANGED <<statuses, consentDB, consentMu, pendingGDPRMutex, pendingGDPRRequests,
                 consentRequests, replyMap, altTextChecks, files, loop, job,
                 out, nEvents, last>>
  /\ OrchFrame

\* the ten-minute sweep of replyMap: the entries written before some
\* moment are older than an hour
SweepReplyMap(m, cutoff) ==
  [k \in {x \in DOMAIN m : m[x].Timestamp > cutoff} |-> m[k]]

cleanupOldEntries(cutoff) ==
  /\ nTicks < MaxTicks
  /\ nTicks' = nTicks + 1
  /\ \E k \in DOMAIN replyMap : replyMap[k].Timestamp <= cutoff
  /\ replyMap' = SweepReplyMap(replyMap, cutoff)
  /\ UNCHANGED <<statuses, consentDB, consentMu, pendingGDPRMutex, pendingGDPRRequests,
                 consentRequests, altTextChecks, files, rl, loop, job, out,
                 nEvents, last>>
  /\ OrchFrame

\* what a mention replies to: nothing, a post with media, a post of the bot
Parents ==
  {None} \cup {id \in 1..Len(statuses) :
               statuses[id].author = Bot \/ Len(statuses[id].atts) > 0}

Next ==
  \/ \E a \in Accounts, parent \in Parents, env \in EventOutcomes :
       \E shape \in ShapesOf(a) : EvMention(a, parent, shape, env)
  \/ \E a \in Users, env \in EventOutcomes : EvFollow(a, env)
  \/ \E statusID \in 1..Len(SourcePosts), env \in EventOutcomes :
       EvUpdate(statusID, env)
  \/ \E originalID \in 1..Len(SourcePosts), delOk \in BOOLEAN :
       EvDelete(originalID, delOk)
  \/ \E u \in Users : BlockEvent(u)
  \/ \E i \in Workers, env \in JobOutcomes : WorkerIncrement(i, env)
  \/ \E i \in Workers, genOk \in BOOLEAN : WorkerGenerate(i, genOk)
  \/ \E postOk \in BOOLEAN, fallbackOk \in BOOLEAN, saveOk \in BOOLEAN :
       JobFinish(postOk, fallbackOk, saveOk)
  \/ ResetMinuteTick
  \/ ResetHourTick
  \/ \E cutoff \in 1..nEvents : cleanupOldEntries(cutoff)

Spec == Init /\ [][Next]_vars


(***************************************************************************)
(* Claims about consent and the generation job (Spec)                      *)
(***************************************************************************)

C2_AsStated ==
  out.ev = "delete" =>
    IF out.hadReply # None
      THEN out.deletes = <<out.hadReply>> /\ out.id \notin DOMAIN replyMap
      ELSE out.deletes = <<>>

\* C2: a Delete event for a source post S with entry R issues exactly one
\* deleteStatus call, for R, and the entry is removed if and only if that
\* call succeeds (a failed call leaves the table as it was); a Delete event
\* for a post without an entry issues no call and changes nothing.
C2_DeleteCascade ==
  [][\A originalID \in 1..Len(SourcePosts), delOk \in BOOLEAN :
       EvDelete(originalID, delOk) =>
         IF originalID \in DOMAIN replyMap
           THEN /\ out'.deletes = <<replyMap[originalID].ReplyID>>
                /\ delOk => replyMap' = MapDel(replyMap, originalID)
                /\ ~delOk => replyMap' = replyMap
           ELSE /\ out'.deletes = <<>>
                /\ UNCHANGED <<statuses, consentDB, consentMu, pendingGDPRMutex,
                               pendingGDPRRequests, consentRequests, replyMap,
                               altTextChecks, rl, loop, job>>]_vars

\* the source post of a tracked reply was deleted: one call, the entry is gone
C2_Witness ==
  /\ out.ev = "delete"
  /\ out.hadReply # None
  /\ out.deletes = <<out.hadReply>>
  /\ out.id \notin DOMAIN replyMap

\* C5: whenever u is shadow-banned at the time of the call, Increment(u)
\* returns deny and changes no counter; and no attachment of a job whose
\* reply-target author is shadow-banned is sent to the model provider.
C5_BannedDenied ==
  /\ \A u \in Accounts, env \in CallOutcomes :
       u \in rl.ShadowBanned =>
         LET res == Increment(rl, u, env) IN ~res.ok /\ res.rl = rl
  /\ out.bannedAtStart => out.provider = {}

\* a job for a shadow-banned requester ran to its end: every goroutine was
\* denied, the reply carries one error text per attachment
C5_Witness ==
  /\ out.bannedAtStart /\ out.finished
  /\ out.provider = {}
  /\ \E k \in 1..Len(out.posts) : out.posts[k].kind = "reply"


(***************************************************************************)
(* Scenario 1 of the specification: the consent handshake                  *)
(***************************************************************************)
AllOk ==
  CHOOSE e \in EventOutcomes : e.getOk /\ e.get2Ok /\ e.postOk /\ e.saveOk

\* parent is a source post of account a with an image that lacks alt-text
OwnPostWithImage(a, parent) ==
  /\ parent \in 1..Len(SourcePosts)
  /\ statuses[parent].author = a
  /\ \E i \in 1..Len(statuses[parent].atts) : statuses[parent].atts[i] = Image

\* after the step: one consent DM with the link, in reply to the mention
\* (which got the next id), the pending entry, no provider call, no job
ConsentAsked(a) ==
  LET mention == Len(statuses) + 1 IN
  /\ out'.posts = << [kind |-> "gdprConsentRequest", replyTo |-> mention,
                      vis |-> "direct", id |-> mention + 1] >>
  /\ containsWord(statuses'[mention + 1].body, <<PrivacyURL>>)
  /\ statuses'[mention + 1].vis = "direct"
  /\ a \in DOMAIN pendingGDPRRequests'
  /\ out'.provider = {} /\ loop' = "idle"

\* the latest event was a's request under its own post, from empty tables,
\* and the bot answered it with the consent DM dm
AskedBefore(a, dm) ==
  /\ out.ev = "mention" /\ out.who = a /\ out.preEmpty
  /\ OwnPostWithImage(a, statuses[out.id].replyTo)
  /\ Len(out.posts) = 1
  /\ out.posts[1].kind = "gdprConsentRequest" /\ out.posts[1].id = dm
  /\ a \in DOMAIN pendingGDPRRequests

\* after the step: the record exists, the pending entry is gone, exactly one
\* confirmation was posted
ConsentGiven(a) ==
  /\ a \in consentDB'
  /\ a \notin DOMAIN pendingGDPRRequests'
  /\ Cardinality({k \in 1..Len(out'.posts) :
                    /\ out'.posts[k].kind = "gdprConsentConfirmation"
                    /\ out'.posts[k].id # None}) = 1

YesReply == [body |-> YesBody, vis |-> "direct"]

C10_AsStated ==
  [][\A a \in Users :
       (a \in DOMAIN pendingGDPRRequests
          /\ EvMention(a, None, [body |-> AgreeBody, vis |-> "direct"], AllOk))
         => (a \in consentDB' /\ a \notin DOMAIN pendingGDPRRequests')]_vars

(***************************************************************************)
(* The record is written before the confirmation is sent                   *)
(***************************************************************************)
\* a confirmation message was sent, or tried, in the handling o
ConfirmationTried(o) ==
  \E k \in 1..Len(o.posts) : o.posts[k].kind = "gdprConsentConfirmation"

\* SpecConsent: the consent module on its own. A user may have been sent
\* the consent message (the welcome message of handleFollow) and may have a
\* record already; every message a user then sends is handed to
\* HandleGDPRConsentResponse, threaded or not, and a user may block the bot.
ConsentStart(posts) ==
  /\ cfg = EscalationConfig
  /\ rl = NewRateLimiter
  /\ acctNew = [u \in Accounts |-> FALSE]
  /\ last = NoOp
  /\ trace = <<>>
  /\ text = <<>> /\ verdict = "unchecked"
  /\ applied = <<>>
  /\ ApiOff
  /\ CheckerOff
  /\ config = [AskForConsent |-> FALSE, ReplyVisibility |-> "public",
                AltTextReminders |-> FALSE, DNI |-> {}]
  /\ \E asked \in SUBSET Users, known \in SUBSET Users, old \in BOOLEAN :
       LET w0 == [statuses |-> posts, consentDB |-> known,
                  consentMu |-> "free", pendingGDPRMutex |-> "free",
                  pendingGDPRRequests |-> <<>>,
                  consentRequests |-> <<>>, replyMap |-> <<>>,
                  altTextChecks |-> <<>>,
                  files |-> [NoFiles EXCEPT
                               !.consent = <<MarshalConsent(known)>>],
                  rl |-> NewRateLimiter, loop |-> "idle", job |-> NoJob,
                  out |-> NoEvent]
           w1 == IF "u1" \in asked
                   THEN RequestGDPRConsent(w0, "u1", None, TRUE, AllOk)
                   ELSE w0
           w2 == IF "u2" \in asked
                   THEN RequestGDPRConsent(w1, "u2", None, TRUE, AllOk)
                   ELSE w1
           w3 == [w2 EXCEPT
                    !.pendingGDPRRequests =
                       [u \in DOMAIN @ |-> [@[u] EXCEPT !.old = old]],
                    !.out = NoEvent]
       IN /\ statuses = w3.statuses
          /\ consentDB = w3.consentDB
          /\ consentMu = w3.consentMu
          /\ pendingGDPRMutex = w3.pendingGDPRMutex
          /\ pendingGDPRRequests = w3.pendingGDPRRequests
          /\ consentRequests = w3.consentRequests
          /\ replyMap = w3.replyMap
          /\ altTextChecks = w3.altTextChecks
          /\ files = savePendingGDPRRequests(w3, asked # {}).files
          /\ loop = w3.loop
          /\ job = w3.job
          /\ out = w3.out
  /\ nEvents = 0
  /\ nTicks = 0

ConsentInit == ConsentStart(SourcePosts)

\* a user sends a message; the consent module looks at it
ConsentMessage(a, parent, shape, env) ==
  /\ loop = "idle" /\ nEvents < MaxEvents
  /\ LET id == Len(statuses) + 1
         m == [author |-> a, replyTo |-> parent, vis |-> shape.vis,
               body |-> shape.body, atts |-> <<>>]
         w0 == [World EXCEPT !.statuses = Append(@, m),
                             !.out = NewOut("mention", a, id)]
     IN Commit(HandleGDPRConsentResponse(w0, id, env).w)
  /\ nEvents' = nEvents + 1
  /\ UNCHANGED <<last, nTicks>>
  /\ OrchFrame

\* the messages of UserShapes and a direct message that says neither yes
\* nor I agree
ConsentShapes == UserShapes \cup { [body |-> PlainBody, vis |-> "direct"] }

ConsentNext ==
  \/ \E a \in Users, parent \in Parents, env \in EventOutcomes :
       \E shape \in ConsentShapes : ConsentMessage(a, parent, shape, env)
  \/ \E u \in Users : HandleBlockEvent(u)

SpecConsent == ConsentInit /\ [][ConsentNext]_vars

(***************************************************************************)
(* Revocation by a block event                                             *)
(***************************************************************************)
\* C11 as stated: handling a block event for a user u with a ConsentRecord
\* completes (consentDB.mu is free again) and leaves u without a record in
\* memory and in consent_database.json; for a user without a record it
\* changes neither the records nor the file.
C11_AsStated ==
  [][\A u \in Users :
       HandleBlockEvent(u) =>
         IF u \in consentDB
           THEN /\ consentMu' = "free"
                /\ u \notin consentDB'
                /\ files'.consent # <<>>
                /\ u \notin loadConsentDatabase(files')
           ELSE UNCHANGED <<consentDB, consentMu, files>>]_vars

\* C12: whenever the consent module sends a confirmation message,
\* successfully or not, the author of the message it answers has a
\* ConsentRecord in memory and in consent_database.json when the handling
\* ends, on the threaded and on the non-threaded path.
C12_RecordBeforeConfirmation ==
  [][(nEvents' = nEvents + 1 /\ ConfirmationTried(out'))
       => (out'.who \in consentDB' /\ files'.consent # <<>>
             /\ out'.who \in loadConsentDatabase(files'))]_vars

\* a user without a record answered "I agree" outside any thread, the
\* record was written and the confirmation post failed: the record is in
\* memory and in the file
C12_Witness ==
  /\ out.ev = "mention"
  /\ statuses[out.id].replyTo = None
  /\ \E k \in 1..Len(out.posts) :
       out.posts[k].kind = "gdprConsentConfirmation" /\ out.posts[k].id = None
  /\ out.who \in consentDB
  /\ files.consent # <<>> /\ out.who \in loadConsentDatabase(files)
  /\ out.hadPending

(***************************************************************************)
(* The audience of the reply                                               *)
(***************************************************************************)
\* C13 as stated: when a generation job ends, the reply it posted and the
\* fallback post are not broader than the source post whose media was
\* described, and not broader than the configured reply visibility, in the
\* order public > unlisted > private > direct.
C13_AsStated ==
  [][(out'.finished /\ ~out.finished) =>
       \A k \in 1..Len(out'.posts) :
         out'.posts[k].kind \in {"reply", "replyError"} =>
           /\ VisRank(out'.posts[k].vis) >= VisRank(statuses[job.src].vis)
           /\ VisRank(out'.posts[k].vis) >= VisRank(config.ReplyVisibility)]_vars

\* SpecVisibility: the visibility mapping on its own, for every configured
\* value (one of the four, or a value the switch has no case for) and every
\* visibility of the post, applied to its own result up to MaxApply times.
MaxApply == 5

ConfiguredVisibilities == Visibilities \cup {"unset"}

VisInit ==
  /\ cfg = EscalationConfig
  /\ rl = NewRateLimiter
  /\ acctNew = [u \in Accounts |-> FALSE]
  /\ last = NoOp
  /\ trace = <<>>
  /\ text = <<>> /\ verdict = "unchecked"
  /\ TablesOff
  /\ ApiOff
  /\ CheckerOff
  /\ \E c \in ConfiguredVisibilities :
       config = [AskForConsent |-> FALSE, ReplyVisibility |-> c,
                 AltTextReminders |-> FALSE, DNI |-> {}]
  /\ \E s \in Visibilities : applied = <<s>>

VisApply ==
  /\ Len(applied) <= MaxApply
  /\ applied' = Append(applied, MapVisibility(config.ReplyVisibility,
                                              applied[Len(applied)]))
  /\ UNCHANGED <<cfg, rl, acctNew, last, trace, text, verdict, orchVars,
                 files, apiVars, checker>>

VisNext == VisApply

SpecVisibility == VisInit /\ [][VisNext]_vars

\* C14 as stated: for configured visibility c and post visibility s among
\* the four values, V(c, V(c, s)) = V(c, s).
C14_AsStated ==
  (config.ReplyVisibility \in Visibilities /\ Len(applied) >= 3)
    => applied[3] = applied[2]

\* C14: V(c, V(c, s)) = V(c, s) in every case but one: with c = private and
\* s public or unlisted V(c, s) is private and V(c, V(c, s)) is direct. From
\* the second application on the value does not change any more.
C14_IdempotentButPrivate ==
  /\ Len(applied) >= 3 =>
       IF config.ReplyVisibility = "private"
            /\ applied[1] \in {"public", "unlisted"}
         THEN applied[2] = "private" /\ applied[3] = "direct"
         ELSE applied[3] = applied[2]
  /\ \A k \in 3..Len(applied) : applied[k] = applied[3]

\* the mapping was applied twice to a private post under a public setting
C14_Witness ==
  /\ config.ReplyVisibility = "public"
  /\ Len(applied) >= 3
  /\ applied[1] = "private" /\ applied[2] = "direct" /\ applied[3] = "direct"

(***************************************************************************)
(* The content warning of the reply                                        *)
(***************************************************************************)
\* strings.HasPrefix
HasPrefix(str, prefix) ==
  Len(str) >= Len(prefix) /\ SubSeq(str, 1, Len(prefix)) = prefix

\* mutant of ContentWarning: every warning is prefixed
ContentWarning_Always(SpoilerText) ==
  IF SpoilerText # <<>> THEN <<"r","e",":"," ">> \o SpoilerText
                        ELSE SpoilerText

\* the content warning of the reply, from status.SpoilerText of the source
ContentWarning(SpoilerText) ==
  IF SpoilerText # <<>> /\ ~HasPrefix(SpoilerText, <<"r","e",":">>)
    THEN <<"r","e",":"," ">> \o SpoilerText
    ELSE SpoilerText

\* SpecWarning: the prefixing on its own, for every warning of up to
\* MaxWarningLen characters, applied to its own result up to MaxApply times.
MaxWarningLen == 5

WarningAlphabet == {"r", "e", ":", " ", "x"}

RECURSIVE Warnings(_)
Warnings(n) ==
  IF n = 0 THEN {<<>>}
  ELSE LET shorter == Warnings(n - 1) IN
       shorter \cup {Append(q, c) : q \in {x \in shorter : Len(x) = n - 1},
                                    c \in WarningAlphabet}

WarnInit ==
  /\ cfg = EscalationConfig
  /\ rl = NewRateLimiter
  /\ acctNew = [u \in Accounts |-> FALSE]
  /\ last = NoOp
  /\ trace = <<>>
  /\ text = <<>> /\ verdict = "unchecked"
  /\ config = [AskForConsent |-> FALSE, ReplyVisibility |-> "public",
                AltTextReminders |-> FALSE, DNI |-> {}]
  /\ TablesOff
  /\ ApiOff
  /\ CheckerOff
  /\ \E w \in Warnings(MaxWarningLen) : applied = <<w>>

WarnApply ==
  /\ Len(applied) <= MaxApply
  /\ applied' = Append(applied, ContentWarning(applied[Len(applied)]))
  /\ UNCHANGED <<cfg, rl, acctNew, last, trace, text, verdict, orchVars,
                 files, apiVars, checker>>

WarnNext == WarnApply

SpecWarning == WarnInit /\ [][WarnNext]_vars

\* C15 as stated: P(P(w)) = P(w); an empty warning stays empty, a warning
\* that does not begin with "re: " becomes "re: " followed by w, and a
\* warning that begins with "re: " is passed through unchanged.
C15_AsStated ==
  Len(applied) >= 3 =>
    LET w == applied[1] IN
    /\ applied[3] = applied[2]
    /\ w = <<>> => applied[2] = <<>>
    /\ (w # <<>> /\ ~HasPrefix(w, <<"r","e",":"," ">>))
         => applied[2] = <<"r","e",":"," ">> \o w
    /\ HasPrefix(w, <<"r","e",":"," ">>) => applied[2] = w

\* C15: P(P(w)) = P(w); an empty warning stays empty, a warning that does
\* not begin with "re:" becomes "re: " followed by w, and a warning that
\* begins with "re:", followed by a space or not, is passed through
\* unchanged.
C15_PrefixOnce ==
  Len(applied) >= 3 =>
    LET w == applied[1] IN
    /\ applied[3] = applied[2]
    /\ w = <<>> => applied[2] = <<>>
    /\ (w # <<>> /\ ~HasPrefix(w, <<"r","e",":">>))
         => applied[2] = <<"r","e",":"," ">> \o w
    /\ HasPrefix(w, <<"r","e",":">>) => applied[2] = w

\* the warning "re:x" went through the prefixing twice and stayed as it was
C15_Witness ==
  /\ Len(applied) >= 3
  /\ applied[1] = <<"r","e",":","x">>
  /\ applied[2] = applied[1] /\ applied[3] = applied[1]

(***************************************************************************)
(* The elements of the reply                                               *)
(***************************************************************************)
\* how many elements of the list are e
CountOf(list, e) == Cardinality({k \in 1..Len(list) : list[k] = e})

\* the job ends in this step
JobEnds == loop = "job" /\ out'.finished /\ ~out.finished

\* every attachment of the source is of a supported type and lacks alt-text
AllToDescribe(src) ==
  \A i \in 1..Len(statuses[src].atts) :
    statuses[src].atts[i].type = "image" /\ ~statuses[src].atts[i].hasDesc

\* C16 as stated: a job over a source with n supported attachments without
\* alt-text ends with exactly n elements, the error string for each
\* attachment whose model call failed and generated text for every other
\* one, and with the reply posted exactly once.
C16_AsStated ==
  [][(JobEnds /\ AllToDescribe(job.src)) =>
       LET n == Len(statuses[job.src].atts) IN
       /\ Len(job.responses) = n
       /\ CountOf(job.responses, "altTextError") = Cardinality(out.failed)
       /\ CountOf(job.responses, "altText") = n - Cardinality(out.failed)
       /\ Cardinality({k \in 1..Len(out'.posts) :
                         out'.posts[k].kind = "reply"
                           /\ out'.posts[k].id # None}) = 1]_vars

\* C16: such a job ends with exactly n elements: the error string for each
\* attachment whose model call failed or that the rate limiter refused,
\* generated text for every other one. PostStatus is called once for the
\* reply; only when it fails is the error text posted instead, once.
C16_FailureIsolation ==
  [][(JobEnds /\ AllToDescribe(job.src)) =>
       LET n == Len(statuses[job.src].atts)
           refused == DOMAIN job.pc \ out.provider
           bad == out.failed \cup refused
           replies == {k \in 1..Len(out'.posts) : out'.posts[k].kind = "reply"}
           errors == {k \in 1..Len(out'.posts) :
                        out'.posts[k].kind = "replyError"}
       IN /\ Len(job.responses) = n
          /\ CountOf(job.responses, "altTextError") = Cardinality(bad)
          /\ CountOf(job.responses, "altText") = n - Cardinality(bad)
          /\ Cardinality(replies) = 1
          /\ Cardinality(errors) <= 1
          /\ \A k \in replies :
               (out'.posts[k].id # None) <=> (errors = {})]_vars

\* a job over the post with two images has ended: one model call failed,
\* the other gave a text, and the one reply was posted
C16_Witness ==
  /\ out.finished
  /\ Cardinality(out.provider) = 2 /\ Cardinality(out.failed) = 1
  /\ \E k \in 1..Len(out.posts) :
       /\ out.posts[k].kind = "reply" /\ out.posts[k].id # None
       /\ \A j \in 1..Len(out.posts) : out.posts[j].kind = "reply" => j = k

(***************************************************************************)
(* The reply waits for the goroutines                                      *)
(***************************************************************************)
\* the reply of the job, or its fallback, is among the posts of the event
ReplyBuilt(o) ==
  \E k \in 1..Len(o.posts) : o.posts[k].kind \in {"reply", "replyError"}

\* C17: the step that builds and posts the reply is taken only when every
\* goroutine of the job has finished, and once the reply of an event is
\* built no step of that event's job appends a response or changes the
\* success counter.
C17_ReplyAfterWorkers ==
  [][/\ (ReplyBuilt(out') /\ ~ReplyBuilt(out))
          => (loop = "job" /\ \A i \in DOMAIN job.pc : job.pc[i] = "done")
     /\ (ReplyBuilt(out) /\ ReplyBuilt(out'))
          => (job = NoJob /\ job' = NoJob)]_vars

\* both goroutines of a job have called the model with success and the
\* reply was posted after them
C17_Witness ==
  /\ out.finished /\ ReplyBuilt(out)
  /\ out.provider = Workers /\ out.failed = {}
  /\ job = NoJob

(***************************************************************************)
(* SpecStore: the tables, their files, the sweeps and a restart            *)
(***************************************************************************)
\* The tables are written by the functions the handlers call, time passes,
\* the periodic sweeps run, and the process is stopped and started again.
\* At the start u1 has given consent.
MaxStoreSteps == 3
MaxStoreTicks == 2

StoreInit ==
  /\ cfg = EscalationConfig
  /\ rl = NewRateLimiter
  /\ acctNew = [u \in Accounts |-> FALSE]
  /\ last = NoOp
  /\ trace = <<>>
  /\ text = <<>> /\ verdict = "unchecked"
  /\ applied = <<>>
  /\ ApiOff
  /\ CheckerOff
  /\ config = [AskForConsent |-> TRUE, ReplyVisibility |-> "public",
                AltTextReminders |-> TRUE, DNI |-> {}]
  /\ statuses = SourcePosts
  /\ consentDB = {"u1"}
  /\ consentMu = "free"
  /\ pendingGDPRMutex = "free"
  /\ pendingGDPRRequests = <<>>
  /\ consentRequests = <<>>
  /\ replyMap = <<>>
  /\ altTextChecks = <<>>
  /\ files = [NoFiles EXCEPT !.consent = <<MarshalConsent({"u1"})>>]
  /\ loop = "idle"
  /\ job = NoJob
  /\ out = NoEvent
  /\ nEvents = 0
  /\ nTicks = 0

StoreFrame ==
  UNCHANGED <<cfg, config, acctNew, trace, text, verdict, applied, apiVars, checker>>

\* a write to a table, by the function that does it in the handlers
StoreStep(op, w) ==
  /\ loop = "idle" /\ nEvents < MaxStoreSteps
  /\ Commit(w)
  /\ nEvents' = nEvents + 1
  /\ last' = [NoOp EXCEPT !.op = op]
  /\ UNCHANGED nTicks
  /\ StoreFrame

\* a follow of an account without a record: the welcome message goes out
\* and the pending request is stored
StoreFollow(a, env) ==
  StoreStep("handleFollow",
            handleFollow([World EXCEPT !.out = NewOut("follow", a, None)],
                         a, env))

\* a consent is granted
StoreRecord(a, ok) ==
  StoreStep("RecordUserConsent",
            RecordUserConsent([World EXCEPT !.out = NewOut("mention", a, None)],
                              a, ok))

\* somebody else asks for the alt-text of a post: the author is asked
StoreRequest(a, src, env) ==
  /\ statuses[src].author # a
  /\ LET id == Len(statuses) + 1
         m == [author |-> a, replyTo |-> src, vis |-> "public",
               body |-> PlainBody, atts |-> <<>>]
         w0 == [World EXCEPT !.statuses = Append(@, m),
                             !.out = NewOut("mention", a, id)]
     IN StoreStep("requestConsent",
                  requestConsent(w0, src, [acct |-> a, id |-> id], env))

\* a request is counted by the rate limiter
StoreIncrement(u, env) ==
  LET res == Increment(rl, u, env) IN
  StoreStep("Increment",
            [World EXCEPT
               !.rl = res.rl,
               !.files = IF IncrementSaves(rl, u)
                           THEN SaveToFile(@, res.rl, env.saveOk) ELSE @,
               !.out = NewOut("mention", u, None)])

\* the end of a generation job: the reply is posted, the source is queued
\* for the reminder and the reply is remembered
StoreReply(src, postOk) ==
  LET w0 == [World EXCEPT
               !.out = NewOut("update", statuses[src].author, src)]
      w1 == PostStatus(w0, "reply", src, "public", postOk)
      w2 == IF HasUserConsent(w1, statuses[src].author)
              THEN queuePostForAltTextCheck(w1, src, statuses[src].author)
              ELSE w1
  IN StoreStep("generateAndPostAltText",
               IF postOk THEN TrackReply(w2, src, Len(w1.statuses), nEvents)
                         ELSE w2)

\* the source of a reply is deleted
StoreDelete(src, delOk) ==
  StoreStep("handleDeleteEvent",
            handleDeleteEvent(
              [World EXCEPT !.out = NewOut("delete", statuses[src].author, src)],
              src, delOk))

\* a step of the clock, a sweep or a restart
StoreTick(op) ==
  /\ loop = "idle" /\ nTicks < MaxStoreTicks
  /\ nTicks' = nTicks + 1
  /\ last' = [NoOp EXCEPT !.op = op]
  /\ UNCHANGED nEvents
  /\ StoreFrame

\* thirty days go by: every request, in memory and in the files, is now
\* older than 30 days
StoreMonthPasses ==
  /\ StoreTick("month")
  /\ pendingGDPRRequests' =
       [u \in DOMAIN pendingGDPRRequests |->
          [pendingGDPRRequests[u] EXCEPT !.old = TRUE]]
  /\ consentRequests' =
       [k \in DOMAIN consentRequests |->
          [consentRequests[k] EXCEPT !.old = TRUE]]
  /\ files' =
       [files EXCEPT
          !.pending = IF @ = <<>> THEN @
                      ELSE <<[u \in DOMAIN @[1] |->
                                [@[1][u] EXCEPT !.timestamp = TRUE]]>>,
          !.requests = IF @ = <<>> THEN @
                       ELSE <<[k \in DOMAIN @[1] |->
                                 [@[1][k] EXCEPT !.Timestamp = TRUE]]>>]
  /\ UNCHANGED <<statuses, consentDB, consentMu, pendingGDPRMutex, replyMap,
                 altTextChecks, rl, loop, job, out>>

\* the ten-minute sweep of replyMap; the entries written up to the moment
\* cutoff are older than an hour (none, with cutoff 0)
StoreSweepReplies(cutoff) ==
  /\ StoreTick("cleanupOldEntries")
  /\ replyMap' = SweepReplyMap(replyMap, cutoff)
  /\ UNCHANGED <<statuses, consentDB, consentMu, pendingGDPRMutex, pendingGDPRRequests,
                 consentRequests, altTextChecks, files, rl, loop, job, out>>

\* the hourly sweep of the per-post consent requests
StoreSweepRequests ==
  /\ StoreTick("cleanupOldConsentRequests")
  /\ Commit(cleanupOldConsentRequests(World))

\* the daily sweep of the pending requests
StoreSweepPending ==
  /\ StoreTick("CleanupExpiredGDPRRequests")
  /\ Commit(CleanupExpiredGDPRRequests(World))

\* the process is stopped and started again: main() makes a new rate
\* limiter and loads ratelimiter.json, loads consent_requests.json and the
\* consent database; the pending requests, replyMap and altTextChecks
\* start as the empty maps of their declarations
Restart(ok) ==
  /\ StoreTick("restart")
  /\ LET w0 == [World EXCEPT
                  !.rl = IF cfg.Enabled THEN LoadFromFile(files)
                                        ELSE NewRateLimiter,
                  !.consentMu = "free",
                  !.pendingGDPRMutex = "free",
                  !.pendingGDPRRequests = <<>>,
                  !.replyMap = <<>>,
                  !.altTextChecks = <<>>,
                  !.out = NoEvent]
     IN Commit(InitializeConsentDatabase(loadConsentRequestsFromFile(w0), ok))

StoreNext ==
  \/ \E a \in Users, env \in EventOutcomes : StoreFollow(a, env)
  \/ \E a \in Users, ok \in BOOLEAN : StoreRecord(a, ok)
  \/ \E a \in Users, src \in 1..Len(SourcePosts), env \in EventOutcomes :
       StoreRequest(a, src, env)
  \/ \E u \in Users, env \in JobOutcomes : StoreIncrement(u, env)
  \/ \E src \in 1..Len(SourcePosts), postOk \in BOOLEAN : StoreReply(src, postOk)
  \/ \E src \in 1..Len(SourcePosts), delOk \in BOOLEAN : StoreDelete(src, delOk)
  \/ StoreMonthPasses
  \/ \E cutoff \in 0..nEvents : StoreSweepReplies(cutoff)
  \/ StoreSweepRequests
  \/ StoreSweepPending
  \/ \E ok \in BOOLEAN : Restart(ok)

SpecStore == StoreInit /\ [][StoreNext]_vars

\* two tables hold the same keys with the same values
SameTable(a, b) == DOMAIN a = DOMAIN b /\ \A k \in DOMAIN a : a[k] = b[k]

\* the tables of a process that has just started and has read nothing
FreshProcess(w) ==
  [w EXCEPT !.rl = NewRateLimiter, !.consentDB = {},
            !.pendingGDPRRequests = <<>>, !.consentRequests = <<>>]

\* what a fresh process holds after loading what the tables were saved as
LoadedRateLimiter == LoadFromFile(SaveToFile(files, rl, TRUE))
LoadedConsent == loadConsentDatabase(saveConsentDatabase(World, TRUE).files)
LoadedPending ==
  InitializePendingGDPRRequests(
    FreshProcess(savePendingGDPRRequests(World, TRUE))).pendingGDPRRequests
LoadedRequests ==
  loadConsentRequestsFromFile(
    FreshProcess(saveConsentRequestsToFile(World, TRUE))).consentRequests

Restarts == last'.op = "restart" /\ nTicks' = nTicks + 1

\* C19 as stated: after a restart the consent ledger, the pending requests,
\* replyMap (RequestReply) and altTextChecks (AltTextWatch) hold the entries
\* they held before it, so that a reply remembered before the restart is
\* still deleted with its source and a queued reminder still fires.
C19_AsStated ==
  [][Restarts =>
       /\ consentDB' = consentDB
       /\ SameTable(pendingGDPRRequests', pendingGDPRRequests)
       /\ SameTable(replyMap', replyMap)
       /\ SameTable(altTextChecks', altTextChecks)]_vars

\* a sweep of one of the three tables runs in this step
Sweeps ==
  /\ nTicks' = nTicks + 1
  /\ last'.op \in {"cleanupOldEntries", "cleanupOldConsentRequests",
                    "CleanupExpiredGDPRRequests"}

\* C20: a sweep of replyMap with no entry older than an hour, of the
\* per-post consent requests with no entry older than 30 days, or of the
\* pending requests with no entry older than 30 days leaves its table and
\* every file as they were.
C20_SweepNoOp ==
  [][/\ (Sweeps /\ last'.op = "cleanupOldEntries"
            /\ \E cutoff \in 0..nEvents :
                 /\ replyMap' = SweepReplyMap(replyMap, cutoff)
                 /\ \A k \in DOMAIN replyMap : replyMap[k].Timestamp > cutoff)
          => (SameTable(replyMap', replyMap) /\ files' = files)
     /\ (Sweeps /\ last'.op = "cleanupOldConsentRequests"
            /\ \A k \in DOMAIN consentRequests : ~consentRequests[k].old)
          => (SameTable(consentRequests', consentRequests) /\ files' = files)
     /\ (Sweeps /\ last'.op = "CleanupExpiredGDPRRequests"
            /\ \A u \in DOMAIN pendingGDPRRequests :
                 ~pendingGDPRRequests[u].old)
          => (SameTable(pendingGDPRRequests', pendingGDPRRequests)
                /\ files' = files)]_vars

\* the daily sweep has just run over a pending request that is not older
\* than 30 days: the request is still there, as it is in the file
C20_Witness ==
  /\ last.op = "CleanupExpiredGDPRRequests"
  /\ pendingGDPRMutex = "free"
  /\ \E u \in DOMAIN pendingGDPRRequests : ~pendingGDPRRequests[u].old
  /\ files.pending = <<MarshalPending(pendingGDPRRequests)>>

(***************************************************************************)
(* The API key store (part_002 75-343) and the key and usage checks of     *)
(* handleAltText (api_server.go 101-126)                                   *)
(***************************************************************************)
\* the monthly limit handed to StartAPIServer
MonthlyLimit == 10
\* CheckAndIncrementUsage saves "every 10 requests"
SaveEvery == 10
\* requests to POST /api/v1/alt-text in one behaviour
MaxRequests == 13
\* the calendar months after the first one
MaxMonth == 1
\* HTTP handler goroutines that can run at the same time
Handlers == {1, 2}
\* the key that was sold, and a key that was never issued
KnownKey == "k1"
ApiKeys == {KnownKey, "kx"}

\* json.MarshalIndent(store.Keys): the json tags of APIKey (the e-mail
\* address, the dates of creation and expiry and the note never change here)
MarshalKeys(Keys) ==
  [k \in DOMAIN Keys |-> [usage_month |-> Keys[k].UsageMonth,
                          last_reset |-> Keys[k].LastReset,
                          active |-> Keys[k].Active]]

\* json.Unmarshal(data, &store.Keys) into the map that is there: every key
\* of the file gets a new APIKey holding what the file says, every other
\* entry of the map stays
UnmarshalKeys(Keys, d) ==
  [k \in DOMAIN Keys \cup DOMAIN d |->
     IF k \in DOMAIN d
       THEN [UsageMonth |-> d[k].usage_month, LastReset |-> d[k].last_reset,
             Active |-> d[k].active]
       ELSE Keys[k]]

\* APIKeyStore.LoadFromFile; a file that cannot be read leaves the map
APIKeyStore_LoadFromFile(store) ==
  IF store.file = <<>> THEN store
  ELSE [store EXCEPT !.Keys = UnmarshalKeys(@, store.file[1])]

saveToFileUnlocked(store, ok) ==
  IF ok THEN [store EXCEPT !.file = <<MarshalKeys(store.Keys)>>] ELSE store

\* ValidateAPIKey once the key was looked up (and, if it was not there,
\* looked up again after the reload): the HTTP status, 0 for "go on"
ValidateFound(store, key) ==
  IF key \notin DOMAIN store.Keys THEN 401
  ELSE IF ~store.Keys[key].Active THEN 401
  ELSE 0

\* CheckAndIncrementUsage, under store.mu; `now' is the current month.
\* ret is the error (TRUE) or nil, spawn says that the saving goroutine
\* was started
CheckAndIncrementUsage(store, key, monthlyLimit, now) ==
  IF key \notin DOMAIN store.Keys
    THEN [store |-> store, err |-> TRUE, spawn |-> FALSE]
  ELSE
    LET k0 == store.Keys[key]
        k1 == IF now # k0.LastReset
                THEN [k0 EXCEPT !.UsageMonth = 0, !.LastReset = now]
                ELSE k0
    IN IF k1.UsageMonth >= monthlyLimit
         THEN [store |-> [store EXCEPT !.Keys[key] = k1], err |-> TRUE,
               spawn |-> FALSE]
         ELSE [store |-> [store EXCEPT !.Keys[key] =
                            [k1 EXCEPT !.UsageMonth = @ + 1]],
               err |-> FALSE,
               spawn |-> (k1.UsageMonth + 1) % SaveEvery = 0]

\* RevokeAPIKey
RevokeAPIKey(store, key, ok) ==
  IF key \notin DOMAIN store.Keys THEN store
  ELSE saveToFileUnlocked([store EXCEPT !.Keys[key].Active = FALSE], ok)

\* SpecApiKeys: the server has loaded api_keys.json, which holds one key.
\* A request is handled in steps, each under store.mu: the lookup of the
\* key, the reload and second lookup for a key that was not found, and the
\* usage check. passed counts, per key, the requests of the current month
\* that passed the usage check.
IdleHandler == [pc |-> "idle", key |-> "-", status |-> 0]

BotOff ==
  /\ cfg = EscalationConfig
  /\ rl = NewRateLimiter
  /\ acctNew = [u \in Accounts |-> FALSE]
  /\ last = NoOp
  /\ trace = <<>>
  /\ text = <<>> /\ verdict = "unchecked"
  /\ config = [AskForConsent |-> FALSE, ReplyVisibility |-> "public",
                AltTextReminders |-> FALSE, DNI |-> {}]
  /\ applied = <<>>
  /\ CheckerOff
  /\ TablesOff

BotIdle == UNCHANGED <<cfg, rl, acctNew, last, trace, text, verdict, applied,
                       orchVars, files, checker>>

ApiKeysInit ==
  /\ BotOff
  /\ apiServer = <<>>
  /\ LET Keys == [k \in {KnownKey} |->
                    [UsageMonth |-> 0, LastReset |-> 0, Active |-> TRUE]]
     IN apiKeyStore =
          [Keys |-> Keys, file |-> <<MarshalKeys(Keys)>>, saves |-> 0,
           now |-> 0, handler |-> [h \in Handlers |-> IdleHandler],
           passed |-> [k \in ApiKeys |-> 0], nReq |-> 0]

KeysFrame == BotIdle /\ UNCHANGED apiServer

\* a request arrives: ValidateAPIKey looks the key up under RLock
Arrive(h, key) ==
  /\ apiKeyStore.handler[h].pc \in {"idle", "done"}
  /\ apiKeyStore.nReq < MaxRequests
  /\ apiKeyStore' =
       [apiKeyStore EXCEPT
          !.nReq = @ + 1,
          !.handler[h] =
             IF key \notin DOMAIN apiKeyStore.Keys
               THEN [pc |-> "reload", key |-> key, status |-> 0]
             ELSE IF ValidateFound(apiKeyStore, key) # 0
               THEN [pc |-> "done", key |-> key,
                     status |-> ValidateFound(apiKeyStore, key)]
             ELSE [pc |-> "check", key |-> key, status |-> 0]]
  /\ KeysFrame

\* the key was not in memory: LoadFromFile and the second lookup
Reload(h) ==
  /\ apiKeyStore.handler[h].pc = "reload"
  /\ LET store == APIKeyStore_LoadFromFile(apiKeyStore)
         key == apiKeyStore.handler[h].key
         st == ValidateFound(store, key)
     IN apiKeyStore' =
          [store EXCEPT
             !.handler[h] = IF st # 0
                              THEN [pc |-> "done", key |-> key, status |-> st]
                              ELSE [pc |-> "check", key |-> key, status |-> 0]]
  /\ KeysFrame

\* handleAltText calls CheckAndIncrementUsage: 429 on an error; otherwise
\* the request goes on to the form and the queue (status 200 here)
Check(h) ==
  /\ apiKeyStore.handler[h].pc = "check"
  /\ LET key == apiKeyStore.handler[h].key
         r == CheckAndIncrementUsage(apiKeyStore, key, MonthlyLimit,
                                     apiKeyStore.now)
     IN apiKeyStore' =
          [r.store EXCEPT
             !.handler[h] = [pc |-> "done", key |-> key,
                             status |-> IF r.err THEN 429 ELSE 200],
             !.passed[key] = IF r.err THEN @ ELSE @ + 1,
             !.saves = IF r.spawn THEN @ + 1 ELSE @]
  /\ KeysFrame

\* a goroutine started by CheckAndIncrementUsage saves the store
AsyncSave(ok) ==
  /\ apiKeyStore.saves > 0
  /\ apiKeyStore' = [saveToFileUnlocked(apiKeyStore, ok) EXCEPT !.saves = @ - 1]
  /\ KeysFrame

\* the key manager, a process of its own: InitAPIKeyStore reads the file,
\* RevokeAPIKey writes it back with the key deactivated
CliRevoke(key) ==
  /\ apiKeyStore.file # <<>>
  /\ key \in DOMAIN apiKeyStore.file[1]
  /\ apiKeyStore.file[1][key].active
  /\ LET cli == APIKeyStore_LoadFromFile(
                  [Keys |-> <<>>, file |-> apiKeyStore.file])
     IN apiKeyStore' =
          [apiKeyStore EXCEPT !.file = RevokeAPIKey(cli, key, TRUE).file]
  /\ KeysFrame

\* the calendar month ends
NextMonth ==
  /\ apiKeyStore.now < MaxMonth
  /\ apiKeyStore' = [apiKeyStore EXCEPT !.now = @ + 1,
                                        !.passed = [k \in ApiKeys |-> 0]]
  /\ KeysFrame

ApiKeysNext ==
  \/ \E h \in Handlers, key \in ApiKeys : Arrive(h, key)
  \/ \E h \in Handlers : Reload(h)
  \/ \E h \in Handlers : Check(h)
  \/ \E ok \in BOOLEAN : AsyncSave(ok)
  \/ CliRevoke(KnownKey)
  \/ NextMonth

SpecApiKeys == ApiKeysInit /\ [][ApiKeysNext]_vars

\* C21 as stated: for every key, the requests of a calendar month that pass
\* the usage check are never more than the monthly limit, whatever the
\* interleaving and also when a request with an unknown key makes the
\* server reload the store from api_keys.json.
C21_AsStated ==
  \A k \in ApiKeys : apiKeyStore.passed[k] <= MonthlyLimit

(***************************************************************************)
(* The request queue of the HTTP API (api_server.go 41-228)                *)
(***************************************************************************)
\* the capacity of requestQueue (make(chan APIRequest, 100)), scaled down
QueueCapacity == 2
\* the capacity of a request's ResultCh (make(chan APIResult, 1))
ResultCapacity == 1
\* requests that reach the queue in one behaviour
MaxQueued == 4
\* calls of StartAPIServer in one behaviour
MaxStarts == 2
\* HTTP handler goroutines that can run at the same time
QueueHandlers == {1, 2, 3}

\* mutant of ChanSend: the channel takes a value whatever it holds
ChanSend_Unbounded(ch, x, capacity) == [ok |-> TRUE, ch |-> Append(ch, x)]

\* a send on a buffered channel that does not wait: it succeeds while the
\* buffer has room
ChanSend(ch, x, capacity) ==
  IF Len(ch) < capacity THEN [ok |-> TRUE, ch |-> Append(ch, x)]
                        ELSE [ok |-> FALSE, ch |-> ch]

\* a receive from a channel that holds a value: the one sent first
ChanRecv(ch) == [x |-> Head(ch), ch |-> Tail(ch)]

IdleQueueHandler == [pc |-> "idle", id |-> None, status |-> 0]

ApiQueueInit ==
  /\ BotOff
  /\ apiKeyStore = <<>>
  /\ apiServer =
       [once |-> FALSE, processors |-> 0, starts |-> 0,
        requestQueue |-> <<>>, processing |-> None,
        handler |-> [h \in QueueHandlers |-> IdleQueueHandler],
        ResultCh |-> <<>>, nReq |-> 0,
        sent |-> <<>>, handed |-> <<>>, delivered |-> <<>>, shed |-> {}]

QueueFrame == BotIdle /\ UNCHANGED apiKeyStore

\* StartAPIServer: queueOnce.Do starts the processor
StartAPIServer ==
  /\ apiServer.starts < MaxStarts
  /\ apiServer' =
       [apiServer EXCEPT
          !.starts = @ + 1,
          !.once = TRUE,
          !.processors = IF apiServer.once THEN @ ELSE @ + 1]
  /\ QueueFrame

\* handleAltText has checked the key, the usage and the form: it makes the
\* request with its ResultCh and reaches the first select. With room in
\* requestQueue the send is done at once, otherwise the handler waits.
Submit(h) ==
  /\ apiServer.starts > 0
  /\ apiServer.handler[h].pc \in {"idle", "done"}
  /\ apiServer.nReq < MaxQueued
  /\ LET id == apiServer.nReq + 1
         s == ChanSend(apiServer.requestQueue, id, QueueCapacity)
     IN apiServer' =
          [apiServer EXCEPT
             !.nReq = id,
             !.ResultCh = Append(@, <<>>),
             !.requestQueue = s.ch,
             !.sent = IF s.ok THEN Append(@, id) ELSE @,
             !.handler[h] = [pc |-> IF s.ok THEN "wait" ELSE "select",
                             id |-> id, status |-> 0]]
  /\ QueueFrame

\* the waiting send goes through once there is room
Enqueue(h) ==
  /\ apiServer.handler[h].pc = "select"
  /\ LET id == apiServer.handler[h].id
         s == ChanSend(apiServer.requestQueue, id, QueueCapacity)
     IN /\ s.ok
        /\ apiServer' =
             [apiServer EXCEPT
                !.requestQueue = s.ch,
                !.sent = Append(@, id),
                !.handler[h].pc = "wait"]
  /\ QueueFrame

\* time.After(10 * time.Second) fires first: 503, and the handler returns
AdmissionTimeout(h) ==
  /\ apiServer.handler[h].pc = "select"
  /\ apiServer' =
       [apiServer EXCEPT
          !.handler[h] = [@ EXCEPT !.pc = "done", !.status = 503],
          !.shed = @ \cup {apiServer.handler[h].id}]
  /\ QueueFrame

\* processQueue: for request := range requestQueue
Dequeue ==
  /\ apiServer.processors > 0
  /\ apiServer.processing = None
  /\ apiServer.requestQueue # <<>>
  /\ LET r == ChanRecv(apiServer.requestQueue)
     IN apiServer' =
          [apiServer EXCEPT
             !.requestQueue = r.ch,
             !.processing = r.x,
             !.handed = Append(@, r.x)]
  /\ QueueFrame

\* mutant of Deliver: the result is handed over only while the request's
\* handler is still at its second select (a ResultCh without buffer)
Deliver_Rendezvous(result) ==
  /\ apiServer.processing # None
  /\ LET id == apiServer.processing
         s == ChanSend(apiServer.ResultCh[id], result, ResultCapacity)
     IN /\ s.ok
        /\ \E h \in QueueHandlers :
             apiServer.handler[h].pc = "wait" /\ apiServer.handler[h].id = id
        /\ apiServer' =
             [apiServer EXCEPT
                !.ResultCh[id] = s.ch,
                !.processing = None,
                !.delivered = Append(@, id)]
  /\ QueueFrame

\* processQueue: the image is processed and the result, the alt-text or an
\* error, is sent on the request's ResultCh
Deliver(result) ==
  /\ apiServer.processing # None
  /\ LET id == apiServer.processing
         s == ChanSend(apiServer.ResultCh[id], result, ResultCapacity)
     IN /\ s.ok
        /\ apiServer' =
             [apiServer EXCEPT
                !.ResultCh[id] = s.ch,
                !.processing = None,
                !.delivered = Append(@, id)]
  /\ QueueFrame

\* the second select: the result arrives
Receive(h) ==
  /\ apiServer.handler[h].pc = "wait"
  /\ LET id == apiServer.handler[h].id IN
     /\ apiServer.ResultCh[id] # <<>>
     /\ LET r == ChanRecv(apiServer.ResultCh[id])
        IN apiServer' =
             [apiServer EXCEPT
                !.ResultCh[id] = r.ch,
                !.handler[h] =
                   [@ EXCEPT !.pc = "done",
                             !.status = IF r.x = "err" THEN 500 ELSE 200]]
  /\ QueueFrame

\* the second select: time.After(120 * time.Second) fires first
RequestTimeout(h) ==
  /\ apiServer.handler[h].pc = "wait"
  /\ apiServer' =
       [apiServer EXCEPT !.handler[h] = [@ EXCEPT !.pc = "done",
                                                  !.status = 504]]
  /\ QueueFrame

ApiQueueNext ==
  \/ StartAPIServer
  \/ \E h \in QueueHandlers : Submit(h)
  \/ \E h \in QueueHandlers : Enqueue(h)
  \/ \E h \in QueueHandlers : AdmissionTimeout(h)
  \/ Dequeue
  \/ \E result \in {"alt", "err"} : Deliver(result)
  \/ \E h \in QueueHandlers : Receive(h)
  \/ \E h \in QueueHandlers : RequestTimeout(h)

SpecApiQueue == ApiQueueInit /\ [][ApiQueueNext]_vars

\* s is the beginning of t
IsPrefix(s, t) == Len(s) <= Len(t) /\ SubSeq(t, 1, Len(s)) = s

\* C22: requestQueue never holds more than its capacity; there is one
\* processor once the server was started, however often, and it has at most
\* one request in hand; the requests are handed to it in the order in which
\* they were enqueued; a request whose admission timed out was answered 503
\* and is neither in the queue nor was it ever handed to the processor.
C22_BoundedFifoQueue ==
  /\ Len(apiServer.requestQueue) <= QueueCapacity
  /\ apiServer.processors = IF apiServer.starts > 0 THEN 1 ELSE 0
  /\ IsPrefix(apiServer.handed, apiServer.sent)
  /\ apiServer.sent = apiServer.handed \o apiServer.requestQueue
  /\ apiServer.processing # None
       => apiServer.handed[Len(apiServer.handed)] = apiServer.processing
  /\ \A id \in apiServer.shed :
       /\ \A k \in 1..Len(apiServer.sent) : apiServer.sent[k] # id
       /\ \A h \in QueueHandlers :
            apiServer.handler[h].id = id => apiServer.handler[h].status = 503

\* requestQueue was full, one request was shed with a 503 and the processor
\* has taken every request that was enqueued before and after it
C22_Witness ==
  /\ apiServer.shed # {}
  /\ Len(apiServer.handed) > QueueCapacity
  /\ apiServer.requestQueue = <<>>
  /\ \E id \in apiServer.shed : id < apiServer.handed[Len(apiServer.handed)]

(***************************************************************************)
(* SpecReply: one event that leads to a generation job, for every          *)
(* configured reply visibility, visibility of the source post and of the   *)
(* mention, with and without reminders, consent and alt-text               *)
(***************************************************************************)
Described == [type |-> "image", hasDesc |-> TRUE]
\* a video without description (the provider takes no video)
Video == [type |-> "video", hasDesc |-> FALSE]

ReplyInit ==
  /\ cfg = CHOOSE c \in RLConfigs : ~c.Enabled
  /\ rl = NewRateLimiter
  /\ acctNew = [u \in Accounts |-> FALSE]
  /\ last = NoOp
  /\ trace = <<>>
  /\ text = <<>> /\ verdict = "unchecked"
  /\ applied = <<>>
  /\ ApiOff
  /\ CheckerOff
  /\ \E c \in Visibilities, remind \in BOOLEAN :
       config = [AskForConsent |-> FALSE, ReplyVisibility |-> c,
                 AltTextReminders |-> remind, DNI |-> {}]
  /\ \E s \in Visibilities, att \in {Image, Described, Video} :
       statuses = << [author |-> "u1", replyTo |-> None, vis |-> s,
                      body |-> <<"p","i","c">>, atts |-> <<att>>] >>
  /\ consentDB \in SUBSET Users
  /\ files = [NoFiles EXCEPT !.consent = <<MarshalConsent(consentDB)>>]
  /\ consentMu = "free"
  /\ pendingGDPRMutex = "free"
  /\ pendingGDPRRequests = <<>>
  /\ consentRequests = <<>>
  /\ replyMap = <<>>
  /\ altTextChecks = <<>>
  /\ loop = "idle"
  /\ job = NoJob
  /\ out = NoEvent
  /\ nEvents = 0
  /\ nTicks = 0

\* u2 mentions the bot in a reply to the post of u1, with visibility t
ReplyMention(t, env) ==
  /\ nEvents = 0
  /\ EvMention("u2", 1, [body |-> PlainBody, vis |-> t], env)

\* the post of u1 arrives as an UpdateEvent
ReplyUpdate(env) ==
  /\ nEvents = 0
  /\ EvUpdate(1, env)

ReplyNext ==
  \/ \E t \in Visibilities, env \in EventOutcomes : ReplyMention(t, env)
  \/ \E env \in EventOutcomes : ReplyUpdate(env)
  \/ \E i \in Workers, env \in JobOutcomes : WorkerIncrement(i, env)
  \/ \E i \in Workers, genOk \in BOOLEAN : WorkerGenerate(i, genOk)
  \/ \E postOk \in BOOLEAN, fallbackOk \in BOOLEAN, saveOk \in BOOLEAN :
       JobFinish(postOk, fallbackOk, saveOk)

SpecReply == ReplyInit /\ [][ReplyNext]_vars

\* the table of the specification: row source, column configured value
VisibilityTable ==
  [s \in Visibilities |-> [c \in Visibilities |->
     IF s = "direct" \/ c = "direct" THEN "direct"
     ELSE IF s = "private" \/ c = "private" THEN "private"
     ELSE IF s = "unlisted" \/ c = "unlisted" THEN "unlisted"
     ELSE "public"]]

\* the entry of the table, turned into direct for a private post
TableThenDirect(c, s) == IF s = "private" THEN "direct" ELSE VisibilityTable[s][c]

\* the reply or the fallback post of the job that ends in this step
RepliesOf(o) ==
  {k \in 1..Len(o.posts) : o.posts[k].kind \in {"reply", "replyError"}}

JobInit ==
  /\ cfg = CHOOSE c \in RLConfigs : ~c.Enabled
  /\ rl = NewRateLimiter
  /\ acctNew = [u \in Accounts |-> FALSE]
  /\ last = NoOp
  /\ trace = <<>>
  /\ text = <<>> /\ verdict = "unchecked"
  /\ applied = <<>>
  /\ ApiOff
  /\ CheckerOff
  /\ config = [AskForConsent |-> FALSE, ReplyVisibility |-> "public",
                AltTextReminders |-> FALSE, DNI |-> {}]
  /\ \E a1 \in {Image, Described, Video}, a2 \in {Image, Described, Video} :
       statuses = << [author |-> "u1", replyTo |-> None, vis |-> "public",
                      body |-> <<"p","i","c">>, atts |-> <<a1, a2>>] >>
  /\ consentDB = {"u1"}
  /\ files = [NoFiles EXCEPT !.consent = <<MarshalConsent({"u1"})>>]
  /\ consentMu = "free"
  /\ pendingGDPRMutex = "free"
  /\ pendingGDPRRequests = <<>>
  /\ consentRequests = <<>>
  /\ replyMap = <<>>
  /\ altTextChecks = <<>>
  /\ loop = "idle"
  /\ job = NoJob
  /\ out = NoEvent
  /\ nEvents = 0
  /\ nTicks = 0

\* u2 asks for the alt-text of the post of u1
JobMention(env) ==
  /\ nEvents = 0
  /\ EvMention("u2", 1, [body |-> PlainBody, vis |-> "public"], env)

\* a step of goroutine i that changes the job only
GoStep(i, from, j) ==
  /\ loop = "job" /\ i \in DOMAIN job.pc /\ job.pc[i] = from
  /\ job' = j
  /\ UNCHANGED <<statuses, consentDB, consentMu, pendingGDPRMutex,
                 pendingGDPRRequests, consentRequests, replyMap, altTextChecks,
                 files, rl, loop, nEvents, nTicks, last>>
  /\ OrchFrame

\* the if-chain over the attachment and the call of the provider
GoClassify(i, genOk) ==
  /\ loop = "job" /\ i \in DOMAIN job.pc /\ job.pc[i] = "classify"
  /\ LET att == statuses[job.src].atts[i]
           toProvider ==
             \/ (att.type = "image" /\ ~att.hasDesc)
             \/ (att.type \in {"video", "gifv"} /\ videoProcessingCapability
                   /\ ~att.hasDesc)
             \/ (att.type = "audio" /\ audioProcessingCapability /\ ~att.hasDesc)
       IN IF toProvider
            THEN /\ GoStep(i, "classify",
                           [job EXCEPT !.pc[i] = IF genOk THEN "appendText"
                                                          ELSE "decRead"])
                 /\ out' = [out EXCEPT !.provider = @ \cup {i},
                                       !.failed = IF genOk THEN @ ELSE @ \cup {i}]
          ELSE IF att.hasDesc
            THEN /\ GoStep(i, "classify",
                           [job EXCEPT !.pc[i] = IF ~job.altTextAlreadyExists
                                                   THEN "flagAppend" ELSE "done"])
                 /\ UNCHANGED out
          ELSE IF videoProcessingCapability /\ audioProcessingCapability
            THEN /\ GoStep(i, "classify",
                           [job EXCEPT !.pc[i] = "done",
                                       !.responses = Append(@, "unsupportedFile")])
                 /\ UNCHANGED out
          ELSE /\ GoStep(i, "classify", [job EXCEPT !.pc[i] = "decRead"])
               /\ UNCHANGED out

\* sucessCount -= 1
GoDecRead(i) ==
  /\ GoStep(i, "decRead", [job EXCEPT !.pc[i] = "decWrite",
                                      !.reg[i] = job.sucessCount])
  /\ UNCHANGED out

GoDecWrite(i) ==
  /\ GoStep(i, "decWrite", [job EXCEPT !.pc[i] = "appendError",
                                       !.sucessCount = job.reg[i] - 1])
  /\ UNCHANGED out

\* responses = append(responses, altText), under mu
GoAppend(i) ==
  /\ \/ GoStep(i, "appendText",
               [job EXCEPT !.pc[i] = "incRead",
                           !.responses = Append(@, "altText")])
     \/ GoStep(i, "appendError",
               [job EXCEPT !.pc[i] = "incRead",
                           !.responses = Append(@, "altTextError")])
  /\ UNCHANGED out

\* sucessCount += 1
GoIncRead(i) ==
  /\ GoStep(i, "incRead", [job EXCEPT !.pc[i] = "incWrite",
                                      !.reg[i] = job.sucessCount])
  /\ UNCHANGED out

GoIncWrite(i) ==
  /\ GoStep(i, "incWrite", [job EXCEPT !.pc[i] = "done",
                                       !.sucessCount = job.reg[i] + 1])
  /\ UNCHANGED out

\* the element for an attachment that has a description, under mu
GoFlagAppend(i) ==
  /\ GoStep(i, "flagAppend",
            [job EXCEPT !.pc[i] = "flagWrite",
                        !.responses = Append(@, "imageAlreadyHasAltText")])
  /\ UNCHANGED out

\* altTextAlreadyExists = true
GoFlagWrite(i) ==
  /\ GoStep(i, "flagWrite", [job EXCEPT !.pc[i] = "done",
                                        !.altTextAlreadyExists = TRUE])
  /\ UNCHANGED out

JobNext ==
  \/ \E env \in EventOutcomes : JobMention(env)
  \/ \E i \in Workers, env \in JobOutcomes : WorkerIncrement(i, env)
  \/ \E i \in Workers, genOk \in BOOLEAN : GoClassify(i, genOk)
  \/ \E i \in Workers : GoDecRead(i)
  \/ \E i \in Workers : GoDecWrite(i)
  \/ \E i \in Workers : GoAppend(i)
  \/ \E i \in Workers : GoIncRead(i)
  \/ \E i \in Workers : GoIncWrite(i)
  \/ \E i \in Workers : GoFlagAppend(i)
  \/ \E i \in Workers : GoFlagWrite(i)
  \/ \E postOk \in BOOLEAN, fallbackOk \in BOOLEAN, saveOk \in BOOLEAN :
       JobFinish(postOk, fallbackOk, saveOk)

SpecJob == JobInit /\ [][JobNext]_vars

\* C24 as stated: when the job ends, the attribution is appended to the
\* reply if and only if a goroutine got a text from the provider, whatever
\* the order in which the goroutines ran.
C24_AsStated ==
  [][JobEnds => (out'.attribution <=> out.provider \ out.failed # {})]_vars

\* C25 as stated: when the job ends, the body holds at most one element
\* saying that the image already has an alt-text.
C25_AsStated ==
  [][JobEnds => CountOf(job.responses, "imageAlreadyHasAltText") <= 1]_vars

(***************************************************************************)
(* C26: accounts that satisfy isDNI                                        *)
(***************************************************************************)
\* an event of the stream was handled in this step
EventHandled == nEvents' = nEvents + 1

\* C26 as stated: an event (mention, follow, update) whose account satisfies
\* isDNI leads to no post of the bot, to no consent record and to no
\* generation job.
C26_AsStated ==
  [][(EventHandled /\ out'.ev \in {"mention", "follow", "update"}
        /\ isDNI(out'.who))
       => (out'.posts = <<>> /\ consentDB' = consentDB /\ loop' # "job")]_vars

(***************************************************************************)
(* C27: the admin command                                                  *)
(***************************************************************************)
\* the test handleAdminReply makes on the text of the mention
IsUnbanCommand(body) ==
  LET parts == Fields(ToLower(body)) IN
  Len(parts) = 3 /\ parts[2] = <<"u","n","b","a","n">>

\* the posts of the event that are not the confirmation of an unban
OtherThanUnban(posts) ==
  {i \in 1..Len(posts) : posts[i].kind # "unbanConfirmation"}

\* C27 as stated: a mention of the admin whose text is the unban command is
\* handled by the admin handler and by nothing else (no consent is resolved,
\* no consent is asked for, no generation job starts), and a mention of any
\* other account never gets the confirmation of an unban.
C27_AsStated ==
  [][(EventHandled /\ out'.ev = "mention")
       => IF out'.who = Admin /\ IsUnbanCommand(statuses'[out'.id].body)
            THEN /\ loop' # "job"
                 /\ OtherThanUnban(out'.posts) = {}
                 /\ consentDB' = consentDB
                 /\ consentRequests' = consentRequests
                 /\ pendingGDPRRequests' = pendingGDPRRequests
            ELSE /\ OtherThanUnban(out'.posts) = 1..Len(out'.posts)
                 /\ rl'.Whitelist = rl.Whitelist]_vars

(***************************************************************************)
(* C28: posts without supported media                                      *)
(***************************************************************************)
\* a supported media type as the specification defines it
SupportedType(att) ==
  \/ att.type = "image"
  \/ (att.type \in {"video", "gifv"} /\ videoProcessingCapability)
  \/ (att.type = "audio" /\ audioProcessingCapability)

\* the event at hand is a mention under a post without an attachment of a
\* supported type, or an update of a post without an attachment of a supported
\* type that lacks alt-text
NothingToDescribe ==
  CASE out.ev = "mention" ->
         LET src == statuses[out.id].replyTo IN
         /\ src # None
         /\ \A i \in 1..Len(statuses[src].atts) :
              ~SupportedType(statuses[src].atts[i])
    [] out.ev = "update" ->
         \A i \in 1..Len(statuses[out.id].atts) :
           ~(SupportedType(statuses[out.id].atts[i])
               /\ ~statuses[out.id].atts[i].hasDesc)
    [] OTHER -> FALSE

\* C28 as stated: such an event leads to no post of the bot (no consent
\* message, no reply) and to no generation job.
C28_AsStated ==
  [][(EventHandled /\ NothingToDescribe')
       => (out'.posts = <<>> /\ loop' # "job")]_vars

(***************************************************************************)
(* C29: the reply post fails                                               *)
(***************************************************************************)
\* the posts of kind k among the posts of an event
PostsOfKind(o, k) == {i \in 1..Len(o.posts) : o.posts[i].kind = k}

\* C29: the job ends with one attempt to post the reply. If it failed, one
\* fallback with the generic error is attempted after it, to the same reply
\* target, replyMap is left as it was and the loop is free for the next
\* event, whether the fallback was posted or not. If it succeeded there is
\* no fallback and replyMap maps the source to the reply.
C29_FallbackOnce ==
  [][JobEnds =>
       LET reply == PostsOfKind(out', "reply")
           fallback == PostsOfKind(out', "replyError")
       IN /\ Cardinality(reply) = 1
          /\ loop' = "idle"
          /\ \A k \in reply :
               IF out'.posts[k].id = None
                 THEN /\ Cardinality(fallback) = 1
                      /\ \A f \in fallback :
                           /\ f > k
                           /\ out'.posts[f].replyTo = job.replyTo
                           /\ out'.posts[f].replyTo = out'.posts[k].replyTo
                      /\ replyMap' = replyMap
                      /\ job.src \notin DOMAIN replyMap'
                 ELSE /\ fallback = {}
                      /\ job.src \in DOMAIN replyMap'
                      /\ replyMap'[job.src].ReplyID = out'.posts[k].id]_vars

\* a job ended whose reply post failed and whose fallback was posted
C29_Witness ==
  /\ out.finished /\ loop = "idle"
  /\ \E k \in PostsOfKind(out, "reply") : out.posts[k].id = None
  /\ \E f \in PostsOfKind(out, "replyError") : out.posts[f].id # None
  /\ replyMap = <<>>

(***************************************************************************)
(* C30: the watch for alt-text added later                                 *)
(***************************************************************************)
\* C30 as stated: the job puts the source post into altTextChecks only if a
\* reply was posted, reminders are enabled, the reply is not direct, the
\* author of the reply target has consent and the source post has an
\* attachment without alt-text.
C30_AsStated ==
  [][(JobEnds /\ job.src \in DOMAIN altTextChecks'
        /\ job.src \notin DOMAIN altTextChecks)
       => /\ \E k \in RepliesOf(out') : out'.posts[k].id # None
          /\ config.AltTextReminders
          /\ \A k \in RepliesOf(out') : out'.posts[k].vis # "direct"
          /\ statuses[job.replyTo].author \in consentDB
          /\ \E i \in 1..Len(statuses[job.src].atts) :
               ~statuses[job.src].atts[i].hasDesc]_vars

(***************************************************************************)
(* SpecWatch: checkAltTextPeriodically next to the event loop. Updates of   *)
(* two posts of u1 start jobs whose end queues the post; the goroutine      *)
(* wakes, ranges over altTextChecks and examines what is due. Time is       *)
(* counted in minutes.                                                      *)
(***************************************************************************)
Interval == 1
ReminderTime == 2
ReminderCooldown == 1440
MaxWakes == 3

\* "Check if time has passed": now.Sub(check.Timestamp) >= checkTime
\* mutant of TimeHasPassed: every entry is due
TimeHasPassed_Any(now, check) == TRUE

TimeHasPassed(now, check) == now - check.Timestamp >= ReminderTime

\* shouldSendReminder: the answer and the tracker it leaves
shouldSendReminder(LastReminded, userID, now) ==
  IF userID \notin DOMAIN LastReminded
       \/ now - LastReminded[userID] >= ReminderCooldown
    THEN [ret |-> TRUE, LastReminded |-> MapPut(LastReminded, userID, now)]
    ELSE [ret |-> FALSE, LastReminded |-> LastReminded]

NoCheck == [PostID |-> None, UserID |-> "-", Timestamp |-> 0]

WatchInit ==
  /\ cfg = CHOOSE c \in RLConfigs : ~c.Enabled
  /\ rl = NewRateLimiter
  /\ acctNew = [u \in Accounts |-> FALSE]
  /\ last = NoOp
  /\ trace = <<>>
  /\ text = <<>> /\ verdict = "unchecked"
  /\ applied = <<>>
  /\ ApiOff
  /\ config = [AskForConsent |-> FALSE, ReplyVisibility |-> "public",
               AltTextReminders |-> TRUE, DNI |-> {}]
  /\ statuses = << [author |-> "u1", replyTo |-> None, vis |-> "public",
                    body |-> <<"p","i","c">>, atts |-> <<Image>>],
                   [author |-> "u1", replyTo |-> None, vis |-> "public",
                    body |-> <<"p","i","c","s">>, atts |-> <<Image>>] >>
  /\ consentDB = {"u1"}
  /\ files = [NoFiles EXCEPT !.consent = <<MarshalConsent(consentDB)>>]
  /\ consentMu = "free"
  /\ pendingGDPRMutex = "free"
  /\ pendingGDPRRequests = <<>>
  /\ consentRequests = <<>>
  /\ replyMap = <<>>
  /\ altTextChecks = <<>>
  /\ loop = "idle"
  /\ job = NoJob
  /\ out = NoEvent
  /\ nEvents = 0
  /\ nTicks = 0
  /\ checker = [clock |-> 0, wakes |-> 0, pc |-> "range", now |-> 0,
                todo |-> {}, seen |-> {}, check |-> NoCheck,
                LastReminded |-> <<>>, log |-> <<>>]

\* what the checker goroutine leaves alone
WatchFrame ==
  UNCHANGED <<cfg, rl, acctNew, last, trace, text, verdict, applied, apiVars,
              config, consentDB, consentMu, pendingGDPRMutex,
              pendingGDPRRequests, consentRequests, replyMap, files, loop,
              job, out, nEvents, nTicks>>

\* the entries the running range statement has still to produce
Unvisited ==
  {id \in checker.todo \cap DOMAIN altTextChecks :
     <<id, altTextChecks[id].Timestamp>> \notin checker.seen}

\* the goroutine is inside "for postID, check := range altTextChecks"
Ranging == checker.pc = "fetch" \/ Unvisited # {}

\* an UpdateEvent for one of the two posts
WatchUpdate(statusID, env) ==
  /\ checker.pc # "crashed"
  /\ statusID \in {1, 2}
  /\ EvUpdate(statusID, env)

\* the author edits the post and describes the image
AuthorAddsAltText(statusID) ==
  /\ statusID \in {1, 2}
  /\ ~statuses[statusID].atts[1].hasDesc
  /\ statuses' = [statuses EXCEPT ![statusID].atts = <<Described>>]
  /\ UNCHANGED <<altTextChecks, checker>>
  /\ WatchFrame

\* time.Sleep(interval) returns after the interval or later; now := time.Now()
\* and the range statement starts
CheckerWake(d) ==
  /\ checker.pc = "range" /\ Unvisited = {}
  /\ checker.wakes < MaxWakes
  /\ checker' = [checker EXCEPT !.clock = @ + d, !.wakes = @ + 1,
                                !.now = checker.clock + d,
                                !.todo = DOMAIN altTextChecks, !.seen = {}]
  /\ UNCHANGED <<statuses, altTextChecks>>
  /\ WatchFrame

\* the range statement produces an entry: one that was there when the loop
\* started, or one that was created since (Go may produce it or skip it)
CheckerVisit(postID) ==
  /\ checker.pc = "range" /\ checker.wakes > 0
  /\ postID \in DOMAIN altTextChecks
  /\ <<postID, altTextChecks[postID].Timestamp>> \notin checker.seen
  /\ (postID \in checker.todo \/ Unvisited # {})
  /\ LET check == altTextChecks[postID] IN
     checker' = [checker EXCEPT
                   !.seen = @ \cup {<<postID, check.Timestamp>>},
                   !.pc = IF TimeHasPassed(checker.now, check)
                            THEN "fetch" ELSE "range",
                   !.check = IF TimeHasPassed(checker.now, check)
                               THEN check ELSE NoCheck]
  /\ UNCHANGED <<statuses, altTextChecks>>
  /\ WatchFrame

\* GetStatus has returned: the body of the loop for the entry at hand
CheckerExamine(getOk, postOk) ==
  /\ checker.pc = "fetch"
  /\ LET check == checker.check
         post == statuses[check.PostID]
         missingAltText == \E i \in 1..Len(post.atts) : ~post.atts[i].hasDesc
         r == shouldSendReminder(checker.LastReminded, check.UserID,
                                 checker.clock)
         outcome == IF ~getOk THEN "fetchFailed"
                    ELSE IF ~missingAltText THEN "notNeeded"
                    ELSE IF ~r.ret THEN "suppressed"
                    ELSE IF postOk THEN "sent" ELSE "sendFailed"
     IN /\ checker' =
             [checker EXCEPT
                !.pc = "range", !.check = NoCheck,
                !.LastReminded = IF getOk /\ missingAltText
                                   THEN r.LastReminded ELSE @,
                !.log = Append(@, [PostID |-> check.PostID,
                                   Timestamp |-> check.Timestamp,
                                   at |-> checker.now,
                                   outcome |-> outcome])]
        /\ statuses' =
             IF outcome = "sent"
               THEN Append(statuses,
                           [author |-> Bot, replyTo |-> check.PostID,
                            vis |-> "direct",
                            body |-> BotBody("altTextReminder"),
                            atts |-> <<>>])
               ELSE statuses
        /\ altTextChecks' = MapDel(altTextChecks, check.PostID)
  /\ WatchFrame

\* the write of queuePostForAltTextCheck meets the running range statement:
\* the runtime may stop the process ("concurrent map iteration and map write")
MapRaceFatal ==
  /\ loop = "job" /\ wgWait /\ Ranging
  /\ loop' = "crashed"
  /\ checker' = [checker EXCEPT !.pc = "crashed"]
  /\ UNCHANGED <<cfg, rl, acctNew, last, trace, text, verdict, applied,
                 apiVars, config, statuses, consentDB, consentMu,
                 pendingGDPRMutex, pendingGDPRRequests, consentRequests,
                 replyMap, altTextChecks, files, job, out, nEvents, nTicks>>

WatchNext ==
  \/ \E statusID \in {1, 2}, env \in EventOutcomes : WatchUpdate(statusID, env)
  \/ \E i \in Workers, env \in JobOutcomes : WorkerIncrement(i, env)
  \/ \E i \in Workers, genOk \in BOOLEAN : WorkerGenerate(i, genOk)
  \/ \E postOk \in BOOLEAN, fallbackOk \in BOOLEAN, saveOk \in BOOLEAN :
       JobFinish(postOk, fallbackOk, saveOk)
  \/ \E statusID \in {1, 2} : AuthorAddsAltText(statusID)
  \/ \E d \in {Interval, ReminderCooldown} : CheckerWake(d)
  \/ \E postID \in {1, 2} : CheckerVisit(postID)
  \/ \E getOk \in BOOLEAN, postOk \in BOOLEAN : CheckerExamine(getOk, postOk)
  \/ MapRaceFatal

SpecWatch == WatchInit /\ [][WatchNext]_vars

\* the examinations in log of the entry that was queued for post p at time t
ExaminationsOf(log, p, t) ==
  {k \in 1..Len(log) : log[k].PostID = p /\ log[k].Timestamp = t}

\* the reminders posted under post p, among the statuses st
RemindersOf(st, p) ==
  {id \in 1..Len(st) :
     st[id].author = Bot /\ st[id].replyTo = p
       /\ st[id].body = BotBody("altTextReminder")}

\* the goroutine finishes the examination of an entry in this step
Examines == checker.pc = "fetch" /\ checker'.pc = "range"

\* C31: an entry is examined at most once and not before ReminderTime has
\* passed since it was queued; the examination posts at most one reminder,
\* and whatever it finds (a reminder sent or failed, the cooldown, alt-text
\* added, the refetch failed) the post is no longer in altTextChecks after it.
C31_ExaminedOnce ==
  [][Examines =>
       LET check == checker.check
           e == checker'.log[Len(checker'.log)]
       IN /\ Len(checker'.log) = Len(checker.log) + 1
          /\ e.PostID = check.PostID /\ e.Timestamp = check.Timestamp
          /\ e.at - e.Timestamp >= ReminderTime
          /\ ExaminationsOf(checker'.log, check.PostID, check.Timestamp)
               = {Len(checker'.log)}
          /\ Len(statuses') <= Len(statuses) + 1
          /\ Cardinality(RemindersOf(statuses', check.PostID)) =
               Cardinality(RemindersOf(statuses, check.PostID))
                 + (IF e.outcome = "sent" THEN 1 ELSE 0)
          /\ check.PostID \notin DOMAIN altTextChecks']_vars

\* both posts were examined: one reminder was sent, the other examination
\* was stopped by the cooldown of the same user
C31_Witness ==
  /\ \E k \in 1..Len(checker.log) : checker.log[k].outcome = "sent"
  /\ \E k \in 1..Len(checker.log) : checker.log[k].outcome = "suppressed"
  /\ altTextChecks = <<>>

(***************************************************************************)
(* C32: the tables and their mutexes                                       *)
(***************************************************************************)
\* C32 as stated: no goroutine touches a table while another goroutine is
\* at work on it. Here: the event loop does not write altTextChecks while
\* the checker goroutine is inside its range statement over altTextChecks
\* (the table has no mutex that could make one wait for the other).
C32_AsStated ==
  [][(JobEnds /\ altTextChecks' # altTextChecks) => ~Ranging]_vars

(***************************************************************************)
(* SpecLegacy: the per-post consent request (ask_for_consent) and the       *)
(* replies in its thread                                                    *)
(***************************************************************************)
LegacyInit ==
  /\ cfg = CHOOSE c \in RLConfigs : ~c.Enabled
  /\ rl = NewRateLimiter
  /\ acctNew = [u \in Accounts |-> FALSE]
  /\ last = NoOp
  /\ trace = <<>>
  /\ text = <<>> /\ verdict = "unchecked"
  /\ applied = <<>>
  /\ ApiOff
  /\ CheckerOff
  /\ config = [AskForConsent |-> TRUE, ReplyVisibility |-> "public",
               AltTextReminders |-> FALSE, DNI |-> {}]
  /\ statuses = << [author |-> "u1", replyTo |-> None, vis |-> "public",
                    body |-> <<"p","i","c">>, atts |-> <<Image>>] >>
  /\ consentDB \in {{}, {"u1"}}
  /\ files = [NoFiles EXCEPT !.consent = <<MarshalConsent(consentDB)>>]
  /\ consentMu = "free"
  /\ pendingGDPRMutex = "free"
  /\ pendingGDPRRequests = <<>>
  /\ consentRequests = <<>>
  /\ replyMap = <<>>
  /\ altTextChecks = <<>>
  /\ loop = "idle"
  /\ job = NoJob
  /\ out = NoEvent
  /\ nEvents = 0
  /\ nTicks = 0

\* a mention of any account, in reply to a post or to one of the bot's posts
LegacyMention(a, parent, shape, env) ==
  /\ parent # None
  /\ EvMention(a, parent, shape, env)

LegacyNext ==
  \/ \E a \in Accounts, parent \in Parents, env \in EventOutcomes :
       \E shape \in ShapesOf(a) : LegacyMention(a, parent, shape, env)
  \/ \E i \in Workers, env \in JobOutcomes : WorkerIncrement(i, env)
  \/ \E i \in Workers, genOk \in BOOLEAN : WorkerGenerate(i, genOk)
  \/ \E postOk \in BOOLEAN, fallbackOk \in BOOLEAN, saveOk \in BOOLEAN :
       JobFinish(postOk, fallbackOk, saveOk)

SpecLegacy == LegacyInit /\ [][LegacyNext]_vars

\* the last whitespace-separated token of the text is y or yes
LastTokenYes(body) ==
  LET f == Fields(body) IN
  Len(f) > 0 /\ ToLower(f[Len(f)]) \in {<<"y">>, <<"y","e","s">>}

\* parent is the bot's consent request for a source post that waits
InLegacyThread(parent) ==
  /\ parent \in 1..Len(statuses)
  /\ statuses[parent].replyTo \in DOMAIN consentRequests

\* what a reply in the thread of a waiting request does; strict says whether
\* the author's reply has to end the request whatever the platform returns
LegacyReply(strict) ==
  \A a \in Accounts, parent \in Parents, env \in EventOutcomes :
    \A shape \in ShapesOf(a) :
      (InLegacyThread(parent) /\ LegacyMention(a, parent, shape, env)) =>
        LET ID == statuses[parent].replyTo
            author == statuses[ID].author
        IN /\ loop' = "job" => (a = author /\ LastTokenYes(shape.body))
           /\ (a = author /\ (strict \/ (env.getOk /\ env.get2Ok))) =>
                IF LastTokenYes(shape.body)
                  THEN loop' = "job" /\ job'.src = ID /\ job'.after = ID
                  ELSE ID \notin DOMAIN consentRequests'
           /\ a # author =>
                /\ loop' = "idle"
                /\ consentRequests' = consentRequests
                /\ OtherThanUnban(out'.posts) = {}

\* the job that a grant started ends: the request is gone
GrantedJobEnds ==
  (JobEnds /\ job.after # None) => job.after \notin DOMAIN consentRequests'

AdminUnbans(u) ==
  /\ EventHandled /\ out'.ev = "mention" /\ out'.who = Admin
  /\ IsUnbanCommand(statuses'[out'.id].body)
  /\ AccountOf(Fields(ToLower(statuses'[out'.id].body))[3]) = u

\* C34: a user who is shadow banned is still shadow banned after every step
\* (an Increment of a job, a reset tick, an event) except the handling of a
\* mention of the admin account that holds the unban command for that user.
C34_BanUntilUnban ==
  [][\A u \in Accounts :
       (u \in rl.ShadowBanned /\ u \notin rl'.ShadowBanned)
         => AdminUnbans(u)]_vars

\* u1 was shadow banned by the Increment calls of a job and the latest
\* event, the admin's unban command, has lifted the ban
C34_Witness ==
  /\ out.ev = "mention" /\ out.who = Admin
  /\ rl.ExceededCounts["u1"] >= cfg.ShadowBanThreshold
  /\ "u1" \in rl.Whitelist /\ "u1" \notin rl.ShadowBanned

(***************************************************************************)
(* C35: consent by a direct message outside any thread                     *)
(***************************************************************************)
\* the step hands a direct message without reply-to to the consent module
NonReplyDM ==
  /\ EventHandled /\ out'.ev = "mention"
  /\ out'.id = Len(statuses) + 1
  /\ statuses'[out'.id].replyTo = None
  /\ statuses'[out'.id].vis = "direct"

\* the sender has a pending request that is not older than
\* pendingGDPRExpirationDays
PendingInTime(u) ==
  u \in DOMAIN pendingGDPRRequests /\ ~pendingGDPRRequests[u].old

\* HandleGDPRConsentResponse returns true for the message of the step,
\* whatever the platform and the disk do
Consumed ==
  \E env \in EventOutcomes :
    HandleGDPRConsentResponse(
      [World EXCEPT !.statuses = Append(@, statuses'[out'.id])],
      out'.id, env).ret

\* C35: a direct message without reply-to from u changes the consent
\* records (in memory or in the file) only if u has a pending request that
\* is at most 30 days old and the body holds an affirmative whole word;
\* with no pending request or an expired one nothing is recorded, the
\* consent module returns false (the message is not consumed) and u has no
\* pending request afterwards.
C35_PendingGate ==
  [][NonReplyDM =>
       LET u == out'.who IN
       /\ (consentDB' # consentDB \/ files'.consent # files.consent)
            => (PendingInTime(u) /\ isAffirmative(statuses'[out'.id].body))
       /\ ~PendingInTime(u)
            => /\ consentDB' = consentDB /\ files'.consent = files.consent
               /\ ~Consumed
               /\ u \notin DOMAIN pendingGDPRRequests']_vars

\* u1 had a pending request in time, sent "I agree" as a direct message
\* outside any thread, and has a record, in memory and in the file, and no
\* pending request now
C35_Witness ==
  /\ out.ev = "mention" /\ out.who = "u1" /\ out.hadPending
  /\ statuses[out.id].replyTo = None /\ statuses[out.id].vis = "direct"
  /\ statuses[out.id].body = AgreeBody
  /\ ConfirmationTried(out)
  /\ "u1" \in consentDB /\ "u1" \notin DOMAIN pendingGDPRRequests
  /\ "u1" \in loadConsentDatabase(files)

\* u1 had an expired request and sent "I agree": the request is gone and
\* nothing was recorded
C35_Expired ==
  /\ out.ev = "mention" /\ out.who = "u1" /\ out.hadPending
  /\ statuses[out.id].replyTo = None /\ statuses[out.id].body = AgreeBody
  /\ "u1" \notin consentDB /\ "u1" \notin DOMAIN pendingGDPRRequests
  /\ ~ConfirmationTried(out)

(***************************************************************************)
(* C36: consent by a reply in a thread                                     *)
(***************************************************************************)
\* a post of u2 that quotes the address of the privacy policy
QuotePost ==
  [author |-> "u2", replyTo |-> None, vis |-> "public",
   body |-> <<"s","e","e"," ", PrivacyURL>>, atts |-> <<>>]

\* SpecQuote: the consent module as in SpecConsent, with the post of u2
\* on the server; the users answer the posts of the bot, the posts with
\* media and the post of u2.
QuoteInit == ConsentStart(Append(SourcePosts, QuotePost))

QuoteParents ==
  Parents \cup {id \in 1..Len(statuses) :
                  containsWord(statuses[id].body, <<PrivacyURL>>)}

QuoteNext ==
  \/ \E a \in Users, parent \in QuoteParents, env \in EventOutcomes :
       \E shape \in ConsentShapes : ConsentMessage(a, parent, shape, env)
  \/ \E u \in Users : HandleBlockEvent(u)

SpecQuote == QuoteInit /\ [][QuoteNext]_vars

\* the step hands a reply to the consent module
ThreadedReply ==
  /\ EventHandled /\ out'.ev = "mention"
  /\ statuses'[out'.id].replyTo # None

\* C36 as stated: a reply changes the consent records only when the post
\* it answers was written by the bot and holds the address of the privacy
\* policy.
C36_AsStated ==
  [][(ThreadedReply
        /\ (consentDB' # consentDB \/ files'.consent # files.consent))
       => LET parentStatus == statuses[statuses'[out'.id].replyTo] IN
          /\ parentStatus.author = Bot
          /\ containsWord(parentStatus.body, <<PrivacyURL>>)]_vars

(***************************************************************************)
(* C37: one notice to the admin per shadow ban                             *)
(***************************************************************************)
\* the step is a call of Increment (a call that changes neither the rate
\* limiter nor its own result is a stuttering step and notifies nobody)
IncrementStep ==
  last'.op = "Increment" /\ (rl' # rl \/ last' # last)

\* the step called notifyAdmin: the account lookup and, when it succeeds,
\* the one PostStatus
NotifiesAdmin == IncrementStep /\ last'.notified # "none"

\* C37: a user enters ShadowBan only in a call of Increment for that user
\* which raises exceedCount from below the threshold to the threshold, and
\* that call makes the one notification attempt; a call of Increment
\* notifies the admin only if it puts its user into ShadowBan, so calls for
\* a banned user and breaches of a whitelisted user notify nobody.  The
\* calls of the workers are steps of their own: each holds rl.mu from its
\* first read to its return.
C37_OneNoticePerBan ==
  [][/\ \A u \in Users :
          (u \notin rl.ShadowBanned /\ u \in rl'.ShadowBanned)
            => /\ NotifiesAdmin /\ last'.user = u
               /\ rl.ExceededCounts[u] < cfg.ShadowBanThreshold
               /\ rl'.ExceededCounts[u] = cfg.ShadowBanThreshold
     /\ NotifiesAdmin
          => /\ last'.user \notin rl.ShadowBanned
             /\ last'.user \notin rl.Whitelist
             /\ rl'.ShadowBanned = rl.ShadowBanned \cup {last'.user}]_vars

\* u2 is banned and told to the admin; after that u1 has been banned by a
\* call whose notice could not be posted
C37_Witness ==
  /\ last.op = "Increment" /\ last.user = "u1"
  /\ last.notified = "post_failed"
  /\ rl.ShadowBanned = {"u1", "u2"}

(***************************************************************************)
(* C38: the counters stay within the limits                                *)
(***************************************************************************)
Larger(a, b) == IF a >= b THEN a ELSE b

\* no counter is above the larger of the limit for established accounts
\* and the limit for new accounts
WithinLimits ==
  \A u \in Users :
    /\ rl.MinuteCounts[u] <= Larger(cfg.MaxRequestsPerMinute,
                                    cfg.NewAccountMaxRequestsPerMinute)
    /\ rl.HourCounts[u] <= Larger(cfg.MaxRequestsPerHour,
                                  cfg.NewAccountMaxRequestsPerHour)

\* the step adds d to both counters of u and leaves the other counters
CountersMove(u, d) ==
  /\ rl'.MinuteCounts = [rl.MinuteCounts EXCEPT ![u] = @ + d]
  /\ rl'.HourCounts = [rl.HourCounts EXCEPT ![u] = @ + d]

\* C38 as stated: the counters stay within the larger limits, a denied
\* Increment changes neither counter and an allowed one adds one to both.
C38_AsStated ==
  /\ []WithinLimits
  /\ [][IncrementStep =>
          CountersMove(last'.user, IF last'.ok THEN 1 ELSE 0)]_vars

\* C38 amended: the counters stay within the larger limits; with rate
\* limiting enabled a denied Increment changes neither counter and an
\* allowed one adds one to both; with rate limiting disabled every
\* Increment is allowed and changes no counter.
C38_CountersBounded ==
  /\ []WithinLimits
  /\ [][IncrementStep =>
          /\ ~cfg.Enabled => last'.ok
          /\ CountersMove(last'.user,
                          IF last'.ok /\ cfg.Enabled THEN 1 ELSE 0)]_vars

\* a user has used up the larger minute limit and the larger hour limit
\* and the next call was denied
C38_Witness ==
  \E u \in Users :
    /\ cfg.Enabled /\ last.op = "Increment" /\ last.user = u /\ ~last.ok
    /\ rl.MinuteCounts[u] = Larger(cfg.MaxRequestsPerMinute,
                                   cfg.NewAccountMaxRequestsPerMinute)
    /\ rl.HourCounts[u] = Larger(cfg.MaxRequestsPerHour,
                                 cfg.NewAccountMaxRequestsPerHour)
    /\ rl.MinuteCounts[u] > 1

(***************************************************************************)
(* C39: every operation returns with its mutex released                    *)
(***************************************************************************)
\* C39 as stated: the operations on the guarded tables are steps that end
\* with the table's mutex released, so between two operations
\* consentDB.mu and pendingGDPRMutex are free.  (A mutex that is held
\* between two steps is held by an operation that waits for the mutex it
\* holds itself: no step of the model releases it.)
C39_AsStated ==
  /\ consentMu = "free"
  /\ pendingGDPRMutex = "free"

(***************************************************************************)
(* C40: the processor never waits for a handler                            *)
(***************************************************************************)
\* SpecApiQueueLive: SpecApiQueue with the processor goroutine running:
\* processQueue takes the next request when there is one, and the
\* processing of the request in hand ends, with the alt-text or with an
\* error. The handlers are not forced to move.
SpecApiQueueLive ==
  /\ SpecApiQueue
  /\ WF_vars(Dequeue)
  /\ WF_vars(\E result \in {"alt", "err"} : Deliver(result))

\* the number of places of the sequence s that hold x
Occurrences(s, x) == Cardinality({k \in 1..Len(s) : s[k] = x})

\* the handler of the request has answered 504 and returned
TimedOut(id) ==
  \E h \in QueueHandlers :
    apiServer.handler[h].id = id /\ apiServer.handler[h].status = 504

\* C40: the send of the result on the ResultCh of the request in hand can
\* always be done at once, whether or not its handler still listens; no
\* request gets more than one result; and every request that was enqueued
\* is in the end handed to the processor and gets its result.
C40_DeliveryNeverBlocks ==
  /\ [](apiServer.processing # None
          => ENABLED (\E result \in {"alt", "err"} : Deliver(result)))
  /\ [](\A id \in 1..apiServer.nReq :
          /\ Occurrences(apiServer.delivered, id) <= 1
          /\ Len(apiServer.ResultCh[id]) <= Occurrences(apiServer.delivered, id))
  /\ \A id \in 1..MaxQueued :
       (Occurrences(apiServer.sent, id) = 1)
         ~> (Occurrences(apiServer.delivered, id) = 1)

\* the handler of a request gave up with 504 before the result was there;
\* the result was delivered all the same, stays in the ResultCh, and a
\* request queued behind it has got its result too
C40_Witness ==
  \E id \in 1..apiServer.nReq :
    /\ TimedOut(id)
    /\ apiServer.ResultCh[id] # <<>>
    /\ \E k \in 1..Len(apiServer.delivered) :
         /\ apiServer.delivered[k] = id
         /\ k < Len(apiServer.delivered)

=============================================================================
